---- MODULE Spec2Model ----
(***************************************************************************)
(* takopi-linear: the gateway event queue (poller.py), the dispatch loop   *)
(* and per-session run orchestration (backend.py) and the sliding-window   *)
(* rate limiter (client.py), as state machines.                            *)
(*                                                                         *)
(*   SpecPoll  concurrent GatewayPoller.poll() calls over one events table *)
(*   SpecMark  poll(), mark_done() and mark_failed() in any order          *)
(*   Spec      _run_loop / handle_and_mark / _handle_event                 *)
(*   SpecRate  _RateLimiter.acquire under a discrete monotonic clock       *)
(*   SpecPrompt     the prompt a created/prompted handler gives the engine *)
(*   SpecClient     LinearClient operations through graphql()              *)
(*   SpecUnwrap     _unwrap_payload applied to a payload and to its result *)
(*   SpecNormalize  _normalize_event_type over both accepted shapes        *)
(*   SpecState      Spec with project lookups and reported resume tokens   *)
(*   SpecConn       poll / mark_done / mark_failed on one connection       *)
(*   SpecResume     resume tokens across the runs of one session           *)
(*   SpecExtract    _extract_session_id and _extract_agent_activity_id      *)
(*   SpecDecode     poll() building events from the rows it fetched        *)
(*   SpecLive       Spec under fair scheduling with the limiter's mutex    *)
(*                  and the poller's lock, storage calls succeeding        *)
(***************************************************************************)
EXTENDS Integers, Sequences, FiniteSets, TLC

\* ---------------------------------------------------------------- bounds
NumRows == 2
NumTableRows == 3
NumCallers == 3
NumPollers == 2
batch_size == 2
max_requests == 2
window_s == 2
NumAcquirers == 2
MaxClock == 6
MaxCalls == 4

RowIds == 1..NumRows
TableRows == 1..NumTableRows
Callers == 1..NumCallers
Pollers == 1..NumPollers
Sessions == {"sess_1", "sess_2"}
Acquirers == 1..NumAcquirers

\* ------------------------------------------------------------- constants
_source == "linear"
Sources == {"linear", "other"}
Statuses == {"pending", "processing", "done", "failed"}
NoSession == ""
NoOne == 0
\* Python's None where a text is expected (texts are tuples of characters)
None == <<"None">>
\* a missing id, resume token, RunContext, get_issue answer
NoId == ""
NoToken == ""
NoContext == ""
NoIssue == [ok |-> FALSE, title |-> None, project_id |-> NoId]

VARIABLES
  \* the events table (poller.py _CLAIM_SQL / _DONE_SQL / _FAILED_SQL)
  source,         \* row -> source column
  status,         \* row -> committed status column
  error,          \* row -> error column ("" when unset)
  \* concurrent poll() calls (SpecPoll)
  rowLock,        \* row -> caller whose open transaction holds the row lock, or NoOne
  pollerOf,       \* caller -> the GatewayPoller instance it calls
  pollerLock,     \* poller -> caller holding GatewayPoller._lock, or NoOne
  pollPc,         \* caller -> "idle" | "claimed"
  claimed,        \* caller -> rows its open transaction has claimed
  lastBatch,      \* the list the latest poll() to return has returned
  returned,       \* row -> number of poll() calls that returned it
  \* dispatch loop and handlers (Spec)
  loopState,      \* "running" | "crashed"
  kind,           \* row -> normalized event type class
  sid,            \* row -> session id extracted from the payload, or NoSession
  rowProject,     \* row -> project id its handler finds for the issue, or NoId
  rowThread,      \* row -> resume token its engine run reports, or NoToken
  pc,             \* row -> position of its handle_and_mark task
  exc,            \* row -> exception text the handler raised ("" when none)
  sessions,       \* set of session ids with a _SessionState
  stop_requested, \* session -> _SessionState.stop_requested
  lockOwner,      \* session -> row whose handler owns run_lock, or NoOne
  lockWaiters,    \* session -> FIFO of rows whose handlers wait on run_lock
  running_tasks,  \* session -> set of rows with a registered RunningTask
  cancel_requested, \* row -> RunningTask.cancel_requested of its run
  watching,       \* row -> its watch_stop task is still looping
  stopNotices,    \* row -> number of "Stop requested" sends its handler made
  errorSends,     \* row -> number of "Error: ..." sends its running handler made
  planFailures,   \* row -> number of failed set_agent_plan calls of its running handler
  markDoneCalls,  \* row -> number of poller.mark_done calls
  markFailedCalls,\* row -> number of poller.mark_failed calls
  \* rate limiter (SpecRate)
  clock,          \* the monotonic clock
  _events,        \* _RateLimiter._events, oldest first
  _lock,          \* acquirer holding _RateLimiter._lock, or NoOne
  acqPc,          \* acquirer -> "idle" | "waiting" | "sleeping"
  wakeAt,         \* acquirer -> earliest clock value at which its sleep ends
  returns,        \* clock values at which acquire() calls returned, in order
  \* per-session memory written by the handlers (Spec, SpecPrompt)
  resume,         \* session -> _SessionState.resume
  context,        \* session -> _SessionState.context
  \* prompt resolution of one created/prompted handler (SpecPrompt)
  normalized,     \* the handler's normalized event type
  payload,        \* the fields of the unwrapped payload the handler reads
  get_issue_result, \* what client.get_issue gives if the handler calls it
  promptPc,       \* position of the handler
  prompt,         \* the handler's local `prompt`
  run_text,       \* the `text` argument of _run_engine_for_session
  engineRuns,     \* number of engine runs the handler started
  \* calls of LinearClient operations (SpecClient)
  calls,          \* caller -> its current call: operation, position, acquire()
                  \* completions, request sent, kind of the exception raised
  \* _unwrap_payload called on a payload and again on its result (SpecUnwrap)
  payloadArg,     \* the dict passed to the first call
  out,            \* the local `out` of the call in progress, its result after
  iters,          \* iterations of the for loop the call has begun
  unwrapPc,       \* "loop" | "returned"
  pass,           \* 1 for the first call, 2 for the call on its result
  firstOut,       \* the result of the first call
  \* _normalize_event_type called on a type and an action (SpecNormalize)
  event_type,     \* the event_type argument, a text or None
  action,         \* the action argument, a text or None
  normalizePc,    \* "call" | "returned"
  normalizedType, \* the text returned
  \* poll / mark_done / mark_failed calls on one storage connection (SpecConn)
  connCalls,      \* caller -> its current call: operation, position, arguments
                  \* of the statement in flight, conn.commit() calls, raised
  \* successive engine runs of one session (SpecResume)
  engineRun,      \* session -> its run in progress or its latest: position, the
                  \* token its message resolved, the token passed to the runner,
                  \* the token the run reported, the token earlier runs reported
                  \* last, the resume lines rendered
  \* one field extractor applied to one payload (SpecExtract)
  extraction,     \* the extractor, the payload, the position, the value returned
  \* poll() turning one fetched row into a GatewayEvent (SpecDecode)
  conversion,     \* the row as fetched, the position, the event built
  \* the locks a handler or the loop takes around one call (SpecLive)
  leafLocks       \* the owner of _RateLimiter._lock, of GatewayPoller._lock,
                  \* row -> the position whose outbound call passed the limiter,
                  \* what poll() had returned when the loop took the lock

tableVars == <<source, status, error>>
pollVars == <<rowLock, pollerOf, pollerLock, pollPc, claimed, lastBatch, returned>>
loopVars == <<loopState, kind, sid, rowProject, rowThread, pc, exc, markDoneCalls,
             markFailedCalls>>
sessionVars == <<sessions, stop_requested, lockOwner, lockWaiters, running_tasks,
                 cancel_requested, watching, stopNotices, errorSends, planFailures>>
rateVars == <<clock, _events, _lock, acqPc, wakeAt, returns>>
stateVars == <<resume, context>>
promptVars == <<normalized, payload, get_issue_result, promptPc, prompt, run_text, engineRuns>>
unwrapVars == <<payloadArg, out, iters, unwrapPc, pass, firstOut>>
normalizeVars == <<event_type, action, normalizePc, normalizedType>>
auxVars == <<engineRun, extraction, conversion, leafLocks>>
fnVars == <<promptVars, calls, unwrapVars, normalizeVars, connCalls, auxVars>>
vars == <<tableVars, pollVars, loopVars, sessionVars, rateVars, stateVars, fnVars>>

\* ------------------------------------------------ parts a specification idles
PollIdle ==
  /\ rowLock = [r \in RowIds |-> NoOne]
  /\ pollerOf = [c \in Callers |-> 1]
  /\ pollerLock = [p \in Pollers |-> NoOne]
  /\ pollPc = [c \in Callers |-> "idle"]
  /\ claimed = [c \in Callers |-> {}]
  /\ lastBatch = <<>>
  /\ returned = [r \in RowIds |-> 0]

LoopIdle ==
  /\ loopState = "running"
  /\ kind = [r \in RowIds |-> "other"]
  /\ sid = [r \in RowIds |-> NoSession]
  /\ rowProject = [r \in RowIds |-> NoId]
  /\ rowThread = [r \in RowIds |-> NoToken]
  /\ pc = [r \in RowIds |-> "queued"]
  /\ exc = [r \in RowIds |-> ""]
  /\ markDoneCalls = [r \in RowIds |-> 0]
  /\ markFailedCalls = [r \in RowIds |-> 0]

SessionsIdle ==
  /\ sessions = {}
  /\ stop_requested = [s \in Sessions |-> FALSE]
  /\ lockOwner = [s \in Sessions |-> NoOne]
  /\ lockWaiters = [s \in Sessions |-> <<>>]
  /\ running_tasks = [s \in Sessions |-> {}]
  /\ cancel_requested = [r \in RowIds |-> FALSE]
  /\ watching = [r \in RowIds |-> FALSE]
  /\ stopNotices = [r \in RowIds |-> 0]
  /\ errorSends = [r \in RowIds |-> 0]
  /\ planFailures = [r \in RowIds |-> 0]

RateIdle ==
  /\ clock = 0
  /\ _events = <<>>
  /\ _lock = NoOne
  /\ acqPc = [a \in Acquirers |-> "idle"]
  /\ wakeAt = [a \in Acquirers |-> 0]
  /\ returns = <<>>

StateIdle ==
  /\ resume = [s \in Sessions |-> NoToken]
  /\ context = [s \in Sessions |-> NoContext]

PromptIdle ==
  /\ normalized = "agent_session.created"
  /\ payload = [title |-> None, body |-> None, project_id |-> NoId, issue_id |-> NoId]
  /\ get_issue_result = NoIssue
  /\ promptPc = "start"
  /\ prompt = None
  /\ run_text = None
  /\ engineRuns = 0

NoCall == [op |-> "", pc |-> "idle", acquires |-> 0, sent |-> FALSE, raised |-> ""]

UnwrapIdle ==
  /\ payloadArg = <<>>
  /\ out = <<>>
  /\ iters = 0
  /\ unwrapPc = "returned"
  /\ pass = 1
  /\ firstOut = <<>>

NoConnCall == [op |-> "", pc |-> "idle", id |-> 0, text |-> "", commits |-> 0,
               raised |-> FALSE]

ConnIdle == connCalls = [c \in Callers |-> NoConnCall]

NoEngineRun == [pc |-> "idle", resolved |-> NoToken, passed |-> NoToken,
                reported |-> NoToken, previous |-> NoToken, rendered |-> {}]

NoExtraction == [fn |-> "", payload |-> <<>>, pc |-> "returned", result |-> None]

NoConversion == [row |-> <<>>, pc |-> "returned", events |-> <<>>]

\* GatewayPoller._lock owned by nobody, by the loop's poll(), by the mark call
\* of a row's task
PollerFree == [loop |-> FALSE, row |-> NoOne]
PollerLoop == [loop |-> TRUE, row |-> NoOne]
PollerTask(e) == [loop |-> FALSE, row |-> e]

NoLeafLocks ==
  [rate |-> NoOne, poller |-> PollerFree, passed |-> [r \in RowIds |-> ""],
   seen |-> [r \in RowIds |-> 0]]

AuxIdle ==
  /\ engineRun = [s \in Sessions |-> NoEngineRun]
  /\ extraction = NoExtraction
  /\ conversion = NoConversion
  /\ leafLocks = NoLeafLocks

NormalizeIdle ==
  /\ event_type = None
  /\ action = None
  /\ normalizePc = "returned"
  /\ normalizedType = <<>>

FnIdle ==
  /\ PromptIdle
  /\ calls = [a \in Acquirers |-> NoCall]
  /\ UnwrapIdle
  /\ NormalizeIdle
  /\ ConnIdle /\ AuxIdle

\* ======================================================================
\* SpecPoll: GatewayPoller.poll() called concurrently on a shared table
\* ======================================================================

\* the rows of the events table
Rows == DOMAIN status

\* created_at column: rows are created in id order
created_at(r) == r

\* the n rows of S with the largest created_at
OldestFirst_NewestFirst(S, n) ==
  {r \in S : Cardinality({q \in S : created_at(q) > created_at(r)}) < n}

\* the n rows of S with the smallest created_at (ORDER BY created_at LIMIT n)
OldestFirst(S, n) ==
  {r \in S : Cardinality({q \in S : created_at(q) < created_at(r)}) < n}

\* the sub-select of _CLAIM_SQL without SKIP LOCKED and without waiting for locks
ClaimSelect_NoSkipLocked(c) ==
  OldestFirst({r \in Rows : source[r] = _source /\ status[r] = "pending"},
              batch_size)

\* the sub-select of _CLAIM_SQL: pending rows of the source that no other
\* transaction has locked, oldest first, at most batch_size
ClaimSelect(c) ==
  OldestFirst({r \in Rows : /\ source[r] = _source
                              /\ status[r] = "pending"
                              /\ rowLock[r] = NoOne},
              batch_size)

\* poll(): take self._lock, execute _CLAIM_SQL and fetch the rows; the
\* transaction stays open (row locks held) until the commit
PollClaim(c) ==
  /\ pollPc[c] = "idle"
  /\ pollerLock[pollerOf[c]] = NoOne
  /\ pollerLock' = [pollerLock EXCEPT ![pollerOf[c]] = c]
  /\ claimed' = [claimed EXCEPT ![c] = ClaimSelect(c)]
  /\ rowLock' = [r \in Rows |-> IF r \in ClaimSelect(c) THEN c ELSE rowLock[r]]
  /\ pollPc' = [pollPc EXCEPT ![c] = "claimed"]
  /\ UNCHANGED <<tableVars, pollerOf, lastBatch, returned, loopVars, sessionVars,
                 rateVars, stateVars, fnVars>>

\* the orders in which an UPDATE ... RETURNING without an ORDER BY of its own
\* can hand back the rows S it updated
ReturningOrders(S) ==
  {q \in [1..Cardinality(S) -> S] : \A i, j \in DOMAIN q : i # j => q[i] # q[j]}

\* poll(): conn.commit() makes the flipped statuses visible and drops the row
\* locks; self._lock is released and the fetched rows are returned as a list
PollCommit(c) ==
  /\ pollPc[c] = "claimed"
  /\ status' = [r \in Rows |-> IF r \in claimed[c] THEN "processing" ELSE status[r]]
  /\ rowLock' = [r \in Rows |-> IF rowLock[r] = c THEN NoOne ELSE rowLock[r]]
  /\ returned' = [r \in Rows |-> IF r \in claimed[c] THEN returned[r] + 1
                                 ELSE returned[r]]
  /\ lastBatch' \in ReturningOrders(claimed[c])
  /\ claimed' = [claimed EXCEPT ![c] = {}]
  /\ pollerLock' = [pollerLock EXCEPT ![pollerOf[c]] = NoOne]
  /\ pollPc' = [pollPc EXCEPT ![c] = "idle"]
  /\ UNCHANGED <<source, error, pollerOf, loopVars, sessionVars, rateVars, stateVars, fnVars>>

InitPoll ==
  /\ source \in [TableRows -> Sources]
  /\ status = [r \in TableRows |-> "pending"]
  /\ error = [r \in TableRows |-> ""]
  /\ rowLock = [r \in TableRows |-> NoOne]
  /\ pollerOf \in [Callers -> Pollers]
  /\ pollerLock = [p \in Pollers |-> NoOne]
  /\ pollPc = [c \in Callers |-> "idle"]
  /\ claimed = [c \in Callers |-> {}]
  /\ lastBatch = <<>>
  /\ returned = [r \in TableRows |-> 0]
  /\ LoopIdle /\ SessionsIdle /\ RateIdle /\ StateIdle /\ FnIdle

NextPoll ==
  \/ \E c \in Callers : PollClaim(c)
  \/ \E c \in Callers : PollCommit(c)

SpecPoll == InitPoll /\ [][NextPoll]_vars

\* ----------------------------------------------------------------------
\* SpecMark: poll(), mark_done() and mark_failed() called in any order
\* ----------------------------------------------------------------------

\* an id that no row of the table has
UnknownId == NumTableRows + 1
\* the ids callers pass to mark_done / mark_failed
MarkIds == TableRows \cup {UnknownId}
\* the error texts callers pass to mark_failed
ErrorTexts == {"boom"}

\* an UPDATE without its WHERE id = %s
DoneSql_NoWhere(st, id) == [r \in DOMAIN st |-> "done"]

\* _DONE_SQL on a status column st: SET status = 'done' WHERE id = %s
DoneSql(st, id) == [r \in DOMAIN st |-> IF r = id THEN "done" ELSE st[r]]

\* a failure statement that puts the row back in the queue
FailedSql_Requeues(st, id) == [r \in DOMAIN st |-> IF r = id THEN "pending" ELSE st[r]]

\* _FAILED_SQL on a status column st: SET status = 'failed' WHERE id = %s
FailedSql(st, id) == [r \in DOMAIN st |-> IF r = id THEN "failed" ELSE st[r]]

\* _FAILED_SQL on an error column er: SET error = %s WHERE id = %s
FailedSqlError(er, id, text) == [r \in DOMAIN er |-> IF r = id THEN text ELSE er[r]]

\* mark_done(id): under self._lock, execute _DONE_SQL and commit. The UPDATE
\* waits for a row lock held by an open claim
mark_done(c, id) ==
  /\ pollPc[c] = "idle"
  /\ pollerLock[pollerOf[c]] = NoOne
  /\ id \in Rows => rowLock[id] = NoOne
  /\ status' = DoneSql(status, id)
  /\ UNCHANGED <<source, error, pollVars, loopVars, sessionVars, rateVars, stateVars, fnVars>>

\* mark_failed(id, error): under self._lock, execute _FAILED_SQL and commit
mark_failed(c, id, text) ==
  /\ pollPc[c] = "idle"
  /\ pollerLock[pollerOf[c]] = NoOne
  /\ id \in Rows => rowLock[id] = NoOne
  /\ status' = FailedSql(status, id)
  /\ error' = FailedSqlError(error, id, text)
  /\ UNCHANGED <<source, pollVars, loopVars, sessionVars, rateVars, stateVars, fnVars>>

NextMark ==
  \/ NextPoll
  \/ \E c \in Callers, id \in MarkIds : mark_done(c, id)
  \/ \E c \in Callers, id \in MarkIds, text \in ErrorTexts : mark_failed(c, id, text)

\* one GatewayPoller over a table of pending rows of its source
InitMark ==
  /\ InitPoll
  /\ source = [r \in TableRows |-> _source]
  /\ pollerOf = [c \in Callers |-> 1]

SpecMark == InitMark /\ [][NextMark]_vars

\* C1: no row is returned by more than one poll() call, the rows the calls
\* have returned are exactly the rows flipped from pending to processing, and
\* the rows held by concurrently open claims are pairwise disjoint.
ClaimExclusivity ==
  /\ \A r \in Rows : returned[r] <= 1
  /\ \A r \in Rows : (returned[r] = 1) <=> (status[r] = "processing")
  /\ \A c, d \in Callers : c # d => claimed[c] \cap claimed[d] = {}

\* two poll() calls of different poller instances hold open claims at once,
\* each over at least one row
ClaimExclusivityWitness ==
  \E c, d \in Callers :
    /\ c # d
    /\ pollerOf[c] # pollerOf[d]
    /\ pollPc[c] = "claimed" /\ pollPc[d] = "claimed"
    /\ claimed[c] # {} /\ claimed[d] # {}

\* ======================================================================
\* Spec: _run_loop, handle_and_mark and _handle_event
\* ======================================================================

_STOP_SESSION_EVENTS ==
  {"agent_session.canceled", "agent_session.cancelled", "agent_session.stopped"}
RunEvents == {"agent_session.created", "agent_session.prompted"}
\* the normalized event types drawn for the queued rows
EventTypes == RunEvents \cup {"agent_session.stopped", "issue.updated"}

\* positions of a handler between taking run_lock and leaving its scope
InRun == {"locked", "resolve", "errsend", "acking", "unavail",
          "running", "plan_final"}
\* positions of a handle_and_mark task that has started and not ended
Live == InRun \cup {"spawned", "waiting", "stop_sending", "ok", "raised"}

MissingSessionText == "Missing agent session id in event payload"
MissingPromptText == "Missing prompt text in event payload"
SendFailedText == "Linear request failed"
EngineFailedText == "engine run failed"
NoAttributeText == "'LinearClient' object has no attribute 'get_agent_activity'"

\* the methods class LinearClient defines
LinearClientMethods ==
  {"aclose", "graphql", "get_viewer", "get_issue", "update_issue",
   "get_workflow_states", "create_agent_activity", "update_agent_session",
   "set_agent_plan"}

\* what the payload of a created or prompted event offers for the prompt: a
\* local text (issue title or prompt body), else an agent activity id, else nothing
PromptSources == {"local", "activity", "none"}

\* the project ids of runtime.project_aliases() with their aliases
project_map == [p \in {"proj_1"} |-> "alpha"]
ProjectIds == {NoId, "proj_1", "proj_9"}
\* the resume tokens an engine reports for its thread
ThreadTokens == {"thread_1"}

\* `if state.context is None and project_id and project_id in project_map`
ContextAfterLookup(ctx, pid) ==
  IF ctx = NoContext /\ pid # NoId /\ pid \in DOMAIN project_map
  THEN project_map[pid]
  ELSE ctx

\* runtime.resolve_message on a text without directives and without a resume
\* line: the prompt is the text, the context is the ambient one
resolve_message(t, ambient_context) ==
  [prompt |-> t, resume_token |-> NoToken, context |-> ambient_context]

\* leaving the scope of `async with state.run_lock`: the lock passes to the
\* longest-waiting handler, whose acquire() returns, or becomes free
Exit(e, to) ==
  LET s == sid[e]
      w == lockWaiters[s]
  IN /\ lockOwner' = [lockOwner EXCEPT ![s] = IF w = <<>> THEN NoOne ELSE Head(w)]
     /\ lockWaiters' = [lockWaiters EXCEPT ![s] = IF w = <<>> THEN <<>> ELSE Tail(w)]
     /\ pc' = [r \in RowIds |-> IF r = e THEN to
                                ELSE IF w # <<>> /\ r = Head(w) THEN "locked"
                                ELSE pc[r]]

\* the while-loop of _run_loop: a poll that returns rows; each returned row gets
\* its handle_and_mark task (tg.start_soon)
Poll ==
  /\ loopState = "running"
  /\ ClaimSelect(NoOne) # {}
  /\ status' = [r \in RowIds |-> IF r \in ClaimSelect(NoOne) THEN "processing"
                                 ELSE status[r]]
  /\ returned' = [r \in RowIds |-> IF r \in ClaimSelect(NoOne) THEN returned[r] + 1
                                   ELSE returned[r]]
  /\ pc' = [r \in RowIds |-> IF r \in ClaimSelect(NoOne) THEN "spawned" ELSE pc[r]]
  /\ UNCHANGED <<source, error, rowLock, pollerOf, pollerLock, pollPc, claimed,
                 lastBatch, loopState, kind, sid, rowProject, rowThread, exc, markDoneCalls, markFailedCalls,
                 sessionVars, rateVars, stateVars, fnVars>>

\* poller.poll() raises a storage error: it leaves the while-loop and the task
\* group, which cancels every handle_and_mark task still running. Each cancelled
\* task unwinds: it leaves the lock's wait queue or the lock's scope, its run's
\* RunningTask is dropped and nothing is marked
PollError ==
  /\ loopState = "running"
  /\ loopState' = "crashed"
  /\ pc' = [r \in RowIds |-> IF pc[r] \in Live THEN "cancelled" ELSE pc[r]]
  /\ lockOwner' = [s \in Sessions |-> NoOne]
  /\ lockWaiters' = [s \in Sessions |-> <<>>]
  /\ running_tasks' = [s \in Sessions |-> {}]
  /\ cancel_requested' = [r \in RowIds |-> FALSE]
  /\ watching' = [r \in RowIds |-> FALSE]
  /\ errorSends' = [r \in RowIds |-> 0]
  /\ planFailures' = [r \in RowIds |-> 0]
  /\ UNCHANGED <<tableVars, pollVars, kind, sid, rowProject, rowThread, exc, markDoneCalls,
                 markFailedCalls, sessions, stop_requested, stopNotices, rateVars, stateVars, fnVars>>

\* _handle_event: the normalized type is none of created, prompted, stop
HandleIgnored(e) ==
  /\ loopState = "running"
  /\ pc[e] = "spawned"
  /\ kind[e] \notin RunEvents \cup _STOP_SESSION_EVENTS
  /\ pc' = [pc EXCEPT ![e] = "ok"]
  /\ UNCHANGED <<tableVars, pollVars, loopState, kind, sid, rowProject, rowThread, exc, markDoneCalls,
                 markFailedCalls, sessionVars, rateVars, stateVars, fnVars>>

\* the session-id test placed after sessions.setdefault
HandleMissingSession_AfterSetdefault(e) ==
  /\ loopState = "running"
  /\ pc[e] = "spawned"
  /\ kind[e] \in RunEvents \cup _STOP_SESSION_EVENTS
  /\ sid[e] = NoSession
  /\ sessions' = sessions \cup {sid[e]}
  /\ pc' = [pc EXCEPT ![e] = "raised"]
  /\ exc' = [exc EXCEPT ![e] = MissingSessionText]
  /\ UNCHANGED <<tableVars, pollVars, loopState, kind, sid, rowProject, rowThread, markDoneCalls,
                 markFailedCalls, stop_requested, lockOwner, lockWaiters,
                 running_tasks, cancel_requested, watching, stopNotices,
                 errorSends, planFailures, rateVars, stateVars, fnVars>>

\* _handle_event: no session id in the payload
HandleMissingSession(e) ==
  /\ loopState = "running"
  /\ pc[e] = "spawned"
  /\ kind[e] \in RunEvents \cup _STOP_SESSION_EVENTS
  /\ sid[e] = NoSession
  /\ pc' = [pc EXCEPT ![e] = "raised"]
  /\ exc' = [exc EXCEPT ![e] = MissingSessionText]
  /\ UNCHANGED <<tableVars, pollVars, loopState, kind, sid, rowProject, rowThread, markDoneCalls,
                 markFailedCalls, sessionVars, rateVars, stateVars, fnVars>>

\* _SessionState(): a fresh state, its lock free and nothing registered
_SessionState ==
  [stop_requested |-> FALSE, lockOwner |-> NoOne, lockWaiters |-> <<>>,
   running_tasks |-> {}]

\* sessions[session_id] = _SessionState(): a fresh state on every event
setdefault_Replace(s) == _SessionState

\* sessions.setdefault(session_id, _SessionState()): the state stored under
\* the id if there is one, else the fresh state, which is stored
setdefault(s) ==
  IF s \in sessions
  THEN [stop_requested |-> stop_requested[s], lockOwner |-> lockOwner[s],
        lockWaiters |-> lockWaiters[s], running_tasks |-> running_tasks[s]]
  ELSE _SessionState

\* _request_cancel that sets no flag
_request_cancel_None(s) == cancel_requested

\* _request_cancel: the cancellation flags after setting the flag of every
\* task registered in the session's running_tasks
_request_cancel(s) ==
  [r \in RowIds |-> IF r \in running_tasks[s] THEN TRUE ELSE cancel_requested[r]]

\* the stop branch's test with run_in_flight left out
SomethingToCancel_TasksOnly(s) == Cardinality(running_tasks[s]) > 0

\* `if cancelled or run_in_flight`: cancelled is the number of running tasks,
\* run_in_flight is state.run_lock.locked(), of the state setdefault returned
SomethingToCancel(s) ==
  Cardinality(setdefault(s).running_tasks) > 0 \/ setdefault(s).lockOwner # NoOne

\* a stop branch that takes the run lock first: it runs only on a free lock
HandleStop_Waits(e) ==
  /\ loopState = "running"
  /\ pc[e] = "spawned"
  /\ kind[e] \in _STOP_SESSION_EVENTS
  /\ sid[e] # NoSession
  /\ lockOwner[sid[e]] = NoOne /\ lockWaiters[sid[e]] = <<>>
  /\ sessions' = sessions \cup {sid[e]}
  /\ stop_requested' = [stop_requested EXCEPT ![sid[e]] = TRUE]
  /\ cancel_requested' = _request_cancel(sid[e])
  /\ pc' = [pc EXCEPT ![e] = "ok"]
  /\ UNCHANGED <<tableVars, pollVars, loopState, kind, sid, rowProject, rowThread, exc, markDoneCalls,
                 markFailedCalls, lockOwner, lockWaiters, running_tasks, watching,
                 stopNotices, errorSends, planFailures, rateVars, stateVars, fnVars>>

\* a stop branch that ends the session's engine runs itself
HandleStop_Kills(e) ==
  /\ loopState = "running"
  /\ pc[e] = "spawned"
  /\ kind[e] \in _STOP_SESSION_EVENTS
  /\ sid[e] # NoSession
  /\ sessions' = sessions \cup {sid[e]}
  /\ stop_requested' = [stop_requested EXCEPT ![sid[e]] = TRUE]
  /\ cancel_requested' = _request_cancel(sid[e])
  /\ pc' = [r \in RowIds |-> IF r = e THEN "ok"
                             ELSE IF sid[r] = sid[e] /\ pc[r] = "running" THEN "raised"
                             ELSE pc[r]]
  /\ UNCHANGED <<tableVars, pollVars, loopState, kind, sid, rowProject, rowThread, exc, markDoneCalls,
                 markFailedCalls, lockOwner, lockWaiters, running_tasks, watching,
                 stopNotices, errorSends, planFailures, rateVars, stateVars, fnVars>>

\* _handle_event, stop branch: set stop_requested, cancel the running tasks and
\* start the "Stop requested" send if there was something to cancel
HandleStop(e) ==
  /\ loopState = "running"
  /\ pc[e] = "spawned"
  /\ kind[e] \in _STOP_SESSION_EVENTS
  /\ sid[e] # NoSession
  /\ sessions' = sessions \cup {sid[e]}
  /\ stop_requested' = [stop_requested EXCEPT ![sid[e]] = TRUE]
  /\ cancel_requested' = _request_cancel(sid[e])
  /\ IF SomethingToCancel(sid[e])
     THEN /\ stopNotices' = [stopNotices EXCEPT ![e] = @ + 1]
          /\ pc' = [pc EXCEPT ![e] = "stop_sending"]
     ELSE /\ pc' = [pc EXCEPT ![e] = "ok"]
          /\ UNCHANGED stopNotices
  /\ UNCHANGED <<tableVars, pollVars, loopState, kind, sid, rowProject, rowThread, exc, markDoneCalls,
                 markFailedCalls, lockOwner, lockWaiters, running_tasks, watching,
                 errorSends, planFailures, rateVars, stateVars, fnVars>>

\* the "Stop requested" send returns or raises
StopSendDone(e) ==
  /\ loopState = "running"
  /\ pc[e] = "stop_sending"
  /\ \E ok \in BOOLEAN :
       /\ pc' = [pc EXCEPT ![e] = IF ok THEN "ok" ELSE "raised"]
       /\ exc' = [exc EXCEPT ![e] = IF ok THEN "" ELSE SendFailedText]
  /\ UNCHANGED <<tableVars, pollVars, loopState, kind, sid, rowProject, rowThread, markDoneCalls,
                 markFailedCalls, sessionVars, rateVars, stateVars, fnVars>>

\* one run lock shared by all sessions
CanAcquire_OneLock(s) ==
  \A t \in Sessions : lockOwner[t] = NoOne /\ lockWaiters[t] = <<>>

\* a lock that never makes its caller wait
CanAcquire_Always(s) == TRUE

\* anyio.Lock.acquire on the run_lock of the state setdefault returned: it
\* succeeds at once only on a lock nobody owns or waits for
CanAcquire(s) ==
  setdefault(s).lockOwner = NoOne /\ setdefault(s).lockWaiters = <<>>

\* _handle_event, created/prompted: sessions.setdefault, then
\* `async with state.run_lock`: own the lock or join its wait queue
AcquireRunLock(e) ==
  /\ loopState = "running"
  /\ pc[e] = "spawned"
  /\ kind[e] \in RunEvents
  /\ sid[e] # NoSession
  /\ sessions' = sessions \cup {sid[e]}
  /\ IF CanAcquire(sid[e])
     THEN /\ lockOwner' = [lockOwner EXCEPT ![sid[e]] = e]
          /\ pc' = [pc EXCEPT ![e] = "locked"]
          /\ UNCHANGED lockWaiters
     ELSE /\ lockWaiters' = [lockWaiters EXCEPT ![sid[e]] = Append(@, e)]
          /\ pc' = [pc EXCEPT ![e] = "waiting"]
          /\ UNCHANGED lockOwner
  /\ UNCHANGED <<tableVars, pollVars, loopState, kind, sid, rowProject, rowThread, exc, markDoneCalls,
                 markFailedCalls, stop_requested, running_tasks, cancel_requested,
                 watching, stopNotices, errorSends,
                 planFailures, rateVars, stateVars, fnVars>>

\* a handler that takes the lock and leaves stop_requested as it found it
ResetStop_KeepsFlag(e) ==
  /\ loopState = "running"
  /\ pc[e] = "locked"
  /\ pc' = [pc EXCEPT ![e] = "resolve"]
  /\ UNCHANGED <<tableVars, pollVars, loopState, kind, sid, rowProject, rowThread, exc, markDoneCalls,
                 markFailedCalls, sessionVars, rateVars, stateVars, fnVars>>

\* first statement under the lock: state.stop_requested = False; the handler
\* goes on to the awaits of prompt resolution (for a created event the initial
\* set_agent_plan call first)
ResetStop(e) ==
  /\ loopState = "running"
  /\ pc[e] = "locked"
  /\ stop_requested' = [stop_requested EXCEPT ![sid[e]] = FALSE]
  /\ pc' = [pc EXCEPT ![e] = "resolve"]
  /\ UNCHANGED <<tableVars, pollVars, loopState, kind, sid, rowProject, rowThread, exc, markDoneCalls,
                 markFailedCalls, sessions, lockOwner, lockWaiters, running_tasks,
                 cancel_requested, watching, stopNotices, errorSends,
                 planFailures, rateVars, stateVars, fnVars>>

\* the awaits up to the prompt decision: the initial set_agent_plan of a created
\* event (a failure is logged and dropped) and get_issue; an unset state.context
\* is set if the project id found is a configured one; then the prompt. With
\* a local text the "Acknowledged" send starts. Without one and without an
\* activity id the error send starts. Without one and with an activity id
\* _maybe_fetch_prompt_from_linear calls client.get_agent_activity, which
\* LinearClient does not define: the AttributeError is no LinearApiError and
\* leaves the handler
ResolvePrompt(e) ==
  /\ loopState = "running"
  /\ pc[e] = "resolve"
  /\ context' = [context EXCEPT ![sid[e]] = ContextAfterLookup(@, rowProject[e])]
  /\ \E planOk \in BOOLEAN, from \in PromptSources, fetched \in BOOLEAN :
       /\ kind[e] # "agent_session.created" => planOk
       /\ planFailures' = [planFailures EXCEPT ![e] = IF planOk THEN @ ELSE @ + 1]
       /\ from # "activity" => fetched
       /\ IF from = "local" \/ (/\ from = "activity"
                                /\ "get_agent_activity" \in LinearClientMethods
                                /\ fetched)
          THEN /\ pc' = [pc EXCEPT ![e] = "acking"]
               /\ UNCHANGED <<exc, errorSends, lockOwner, lockWaiters>>
          ELSE IF from = "activity" /\ "get_agent_activity" \notin LinearClientMethods
          THEN /\ fetched
               /\ Exit(e, "raised")
               /\ exc' = [exc EXCEPT ![e] = NoAttributeText]
               /\ UNCHANGED errorSends
          ELSE /\ pc' = [pc EXCEPT ![e] = "errsend"]
               /\ errorSends' = [errorSends EXCEPT ![e] = @ + 1]
               /\ UNCHANGED <<exc, lockOwner, lockWaiters>>
  /\ UNCHANGED <<tableVars, pollVars, loopState, kind, sid, rowProject, rowThread, markDoneCalls,
                 markFailedCalls, sessions, stop_requested, running_tasks,
                 cancel_requested, watching, stopNotices, rateVars, resume, fnVars>>

\* the missing-prompt branch with the lock kept on the way out
ErrSendDone_NoRelease(e) ==
  /\ loopState = "running"
  /\ pc[e] = "errsend"
  /\ pc' = [pc EXCEPT ![e] = "raised"]
  /\ exc' = [exc EXCEPT ![e] = MissingPromptText]
  /\ UNCHANGED <<tableVars, pollVars, loopState, kind, sid, rowProject, rowThread, markDoneCalls,
                 markFailedCalls, sessionVars, rateVars, stateVars, fnVars>>

\* the missing-prompt error send returns or raises; either way the finally
\* clause raises RuntimeError, which leaves the lock's scope
ErrSendDone(e) ==
  /\ loopState = "running"
  /\ pc[e] = "errsend"
  /\ Exit(e, "raised")
  /\ exc' = [exc EXCEPT ![e] = MissingPromptText]
  /\ UNCHANGED <<tableVars, pollVars, loopState, kind, sid, rowProject, rowThread, markDoneCalls,
                 markFailedCalls, sessions, stop_requested, running_tasks,
                 cancel_requested, watching, stopNotices, errorSends,
                 planFailures, rateVars, stateVars, fnVars>>

\* the final plan update without the test of stop_requested
AfterRun_IgnoresStop(e) ==
  IF kind[e] = "agent_session.created"
  THEN /\ pc' = [pc EXCEPT ![e] = "plan_final"]
       /\ UNCHANGED <<lockOwner, lockWaiters>>
  ELSE Exit(e, "ok")

\* after _run_engine_for_session returned: a created event whose session has no
\* stop request starts the final set_agent_plan call; otherwise the handler
\* returns and leaves the lock's scope
AfterRun(e) ==
  IF kind[e] = "agent_session.created" /\ ~stop_requested[sid[e]]
  THEN /\ pc' = [pc EXCEPT ![e] = "plan_final"]
       /\ UNCHANGED <<lockOwner, lockWaiters>>
  ELSE Exit(e, "ok")

\* the handler going from the acknowledgement to the run without the test of
\* state.stop_requested
AckDone_NoStopTest(e) ==
  /\ loopState = "running"
  /\ pc[e] = "acking"
  /\ \E ok \in BOOLEAN :
       IF ~ok
       THEN /\ Exit(e, "raised")
            /\ exc' = [exc EXCEPT ![e] = SendFailedText]
            /\ UNCHANGED <<watching, cancel_requested>>
       ELSE /\ pc' = [pc EXCEPT ![e] = "running"]
            /\ watching' = [watching EXCEPT ![e] = TRUE]
            /\ cancel_requested' = [cancel_requested EXCEPT ![e] = FALSE]
            /\ UNCHANGED <<exc, lockOwner, lockWaiters>>
  /\ UNCHANGED <<tableVars, pollVars, loopState, kind, sid, rowProject, rowThread, markDoneCalls,
                 markFailedCalls, sessions, stop_requested, running_tasks,
                 stopNotices, errorSends, planFailures, rateVars, stateVars, fnVars>>

\* the "Acknowledged" send returns or raises; then the stop-before-run test,
\* resolve_runner, and the start of the task group with run_handle and watch_stop
AckDone(e) ==
  /\ loopState = "running"
  /\ pc[e] = "acking"
  /\ \E ok \in BOOLEAN, available \in BOOLEAN :
       IF ~ok
       THEN /\ available
            /\ Exit(e, "raised")
            /\ exc' = [exc EXCEPT ![e] = SendFailedText]
            /\ UNCHANGED <<watching, cancel_requested, errorSends>>
       ELSE IF stop_requested[sid[e]]
       THEN /\ available
            /\ Exit(e, "ok")
            /\ UNCHANGED <<exc, watching, cancel_requested, errorSends>>
       ELSE IF available
       THEN /\ pc' = [pc EXCEPT ![e] = "running"]
            /\ watching' = [watching EXCEPT ![e] = TRUE]
            /\ cancel_requested' = [cancel_requested EXCEPT ![e] = FALSE]
            /\ UNCHANGED <<exc, errorSends, lockOwner, lockWaiters>>
       ELSE /\ pc' = [pc EXCEPT ![e] = "unavail"]
            /\ errorSends' = [errorSends EXCEPT ![e] = @ + 1]
            /\ UNCHANGED <<exc, watching, cancel_requested, lockOwner, lockWaiters>>
  /\ UNCHANGED <<tableVars, pollVars, loopState, kind, sid, rowProject, rowThread, markDoneCalls,
                 markFailedCalls, sessions, stop_requested, running_tasks,
                 stopNotices, planFailures, rateVars, stateVars, fnVars>>

\* resolve_runner's RunnerUnavailableError left uncaught
UnavailSendDone_Raises(e) ==
  /\ loopState = "running"
  /\ pc[e] = "unavail"
  /\ Exit(e, "raised")
  /\ exc' = [exc EXCEPT ![e] = "runner unavailable"]
  /\ UNCHANGED <<tableVars, pollVars, loopState, kind, sid, rowProject, rowThread, markDoneCalls,
                 markFailedCalls, sessions, stop_requested, running_tasks,
                 cancel_requested, watching, stopNotices, errorSends,
                 planFailures, rateVars, stateVars, fnVars>>

\* the engine-unavailable error send returns (the handler goes on as after a
\* run) or raises
UnavailSendDone(e) ==
  /\ loopState = "running"
  /\ pc[e] = "unavail"
  /\ \E ok \in BOOLEAN :
       IF ok
       THEN AfterRun(e) /\ UNCHANGED exc
       ELSE Exit(e, "raised") /\ exc' = [exc EXCEPT ![e] = SendFailedText]
  /\ UNCHANGED <<tableVars, pollVars, loopState, kind, sid, rowProject, rowThread, markDoneCalls,
                 markFailedCalls, sessions, stop_requested, running_tasks,
                 cancel_requested, watching, stopNotices, errorSends,
                 planFailures, rateVars, stateVars, fnVars>>

\* handle_message registers the run's RunningTask in state.running_tasks
EngineRegister(e) ==
  /\ loopState = "running"
  /\ pc[e] = "running"
  /\ e \notin running_tasks[sid[e]]
  /\ running_tasks' = [running_tasks EXCEPT ![sid[e]] = @ \cup {e}]
  /\ UNCHANGED <<tableVars, pollVars, loopVars, sessions, stop_requested, lockOwner,
                 lockWaiters, cancel_requested, watching, stopNotices, errorSends,
                 planFailures, rateVars, stateVars, fnVars>>

\* watch_stop that returns on the first stop request it sees, registered
\* tasks or not
WatchStop_StopsAtOnce(e) ==
  /\ loopState = "running"
  /\ pc[e] = "running"
  /\ watching[e]
  /\ stop_requested[sid[e]]
  /\ cancel_requested' = _request_cancel(sid[e])
  /\ watching' = [watching EXCEPT ![e] = FALSE]
  /\ UNCHANGED <<tableVars, pollVars, loopVars, sessions, stop_requested, lockOwner,
                 lockWaiters, running_tasks, stopNotices, errorSends,
                 planFailures, rateVars, stateVars, fnVars>>

\* watch_stop that clears the stop request once it has passed it on
WatchStop_ClearsFlag(e) ==
  /\ loopState = "running"
  /\ pc[e] = "running"
  /\ watching[e]
  /\ stop_requested[sid[e]]
  /\ Cardinality(running_tasks[sid[e]]) > 0
  /\ cancel_requested' = _request_cancel(sid[e])
  /\ watching' = [watching EXCEPT ![e] = FALSE]
  /\ stop_requested' = [stop_requested EXCEPT ![sid[e]] = FALSE]
  /\ UNCHANGED <<tableVars, pollVars, loopVars, sessions, lockOwner, lockWaiters,
                 running_tasks, stopNotices, errorSends,
                 planFailures, rateVars, stateVars, fnVars>>

\* watch_stop wakes with stop_requested set and at least one running task:
\* _request_cancel sets the flags and the watcher returns
WatchStop(e) ==
  /\ loopState = "running"
  /\ pc[e] = "running"
  /\ watching[e]
  /\ stop_requested[sid[e]]
  /\ Cardinality(running_tasks[sid[e]]) > 0
  /\ cancel_requested' = _request_cancel(sid[e])
  /\ watching' = [watching EXCEPT ![e] = FALSE]
  /\ UNCHANGED <<tableVars, pollVars, loopVars, sessions, stop_requested, lockOwner,
                 lockWaiters, running_tasks, stopNotices, errorSends,
                 planFailures, rateVars, stateVars, fnVars>>

\* on_thread_known called for a thread that started after the run
OnThreadKnown_Late(e) ==
  /\ loopState = "running"
  /\ pc[e] \in {"ok", "raised"}
  /\ kind[e] \in RunEvents /\ sid[e] # NoSession
  /\ rowThread[e] \notin {NoToken, resume[sid[e]]}
  /\ resume' = [resume EXCEPT ![sid[e]] = rowThread[e]]
  /\ UNCHANGED <<tableVars, pollVars, loopVars, sessionVars, rateVars, context,
                 fnVars>>

\* handle_message calls on_thread_known when the engine reports its thread:
\* state.resume = resume_token
OnThreadKnown(e) ==
  /\ loopState = "running"
  /\ pc[e] = "running"
  /\ rowThread[e] \notin {NoToken, resume[sid[e]]}
  /\ resume' = [resume EXCEPT ![sid[e]] = rowThread[e]]
  /\ UNCHANGED <<tableVars, pollVars, loopVars, sessionVars, rateVars, context,
                 fnVars>>

\* handle_message returns or raises: its RunningTask is dropped (and with it the
\* flag), run_done is set, the watcher ends and the task group is left; after a
\* return state.context = context, the context resolved for the run
EngineFinish(e) ==
  /\ loopState = "running"
  /\ pc[e] = "running"
  /\ running_tasks' = [running_tasks EXCEPT ![sid[e]] = @ \ {e}]
  /\ watching' = [watching EXCEPT ![e] = FALSE]
  /\ cancel_requested' = [cancel_requested EXCEPT ![e] = FALSE]
  /\ \E ok \in BOOLEAN :
       IF ok
       THEN /\ AfterRun(e) /\ UNCHANGED exc
            /\ context' = [context EXCEPT ![sid[e]] =
                             resolve_message(<<>>, @).context]
       ELSE /\ Exit(e, "raised") /\ exc' = [exc EXCEPT ![e] = EngineFailedText]
            /\ UNCHANGED context
  /\ UNCHANGED <<tableVars, pollVars, loopState, kind, sid, rowProject, rowThread, markDoneCalls,
                 markFailedCalls, sessions, stop_requested, stopNotices, errorSends,
                 planFailures, rateVars, resume, fnVars>>

\* a failed plan update that leaves the handler as an exception
AfterPlanError_Raises == "raised"

\* `except (LinearApiError, Exception): logger.debug("plan.set_failed", ...)`:
\* the handler goes on to its return
AfterPlanError == "ok"

\* the final set_agent_plan returns or raises; a failure is logged and dropped
PlanFinal(e) ==
  /\ loopState = "running"
  /\ pc[e] = "plan_final"
  /\ \E ok \in BOOLEAN :
       IF ok
       THEN Exit(e, "ok") /\ UNCHANGED planFailures
       ELSE /\ Exit(e, AfterPlanError)
            /\ planFailures' = [planFailures EXCEPT ![e] = @ + 1]
  /\ UNCHANGED <<tableVars, pollVars, loopState, kind, sid, rowProject, rowThread, exc, markDoneCalls,
                 markFailedCalls, sessions, stop_requested, running_tasks,
                 cancel_requested, watching, stopNotices, errorSends, rateVars, stateVars, fnVars>>

\* the handle_and_mark task of e ends: what its handler sent and logged is no
\* longer tracked
TaskEnds(e) ==
  /\ errorSends' = [errorSends EXCEPT ![e] = 0]
  /\ planFailures' = [planFailures EXCEPT ![e] = 0]

\* an exception of mark_done / mark_failed that leaves handle_and_mark
OnMarkError_Escapes == "crashed"

\* `except Exception: logger.exception(...)` around mark_done / mark_failed
OnMarkError == loopState

\* handle_and_mark after a handler that returned: poller.mark_done
MarkDone(e) ==
  /\ loopState = "running"
  /\ pc[e] = "ok"
  /\ markDoneCalls' = [markDoneCalls EXCEPT ![e] = @ + 1]
  /\ pc' = [pc EXCEPT ![e] = "end"]
  /\ \E ok \in BOOLEAN :
       IF ok
       THEN /\ status' = [status EXCEPT ![e] = "done"]
            /\ UNCHANGED loopState
       ELSE /\ loopState' = OnMarkError
            /\ UNCHANGED status
  /\ TaskEnds(e)
  /\ UNCHANGED <<source, error, pollVars, kind, sid, rowProject, rowThread, exc, markFailedCalls,
                 sessions, stop_requested, lockOwner, lockWaiters, running_tasks,
                 cancel_requested, watching, stopNotices, rateVars, stateVars, fnVars>>

\* handle_and_mark without the return after mark_failed
AfterMarkFailed_FallThrough == "ok"

\* handle_and_mark returns after mark_failed
AfterMarkFailed == "end"

\* handle_and_mark after a handler that raised: poller.mark_failed with the
\* exception text
MarkFailed(e) ==
  /\ loopState = "running"
  /\ pc[e] = "raised"
  /\ markFailedCalls' = [markFailedCalls EXCEPT ![e] = @ + 1]
  /\ pc' = [pc EXCEPT ![e] = AfterMarkFailed]
  /\ \E ok \in BOOLEAN :
       IF ok
       THEN /\ status' = [status EXCEPT ![e] = "failed"]
            /\ error' = [error EXCEPT ![e] = exc[e]]
            /\ UNCHANGED loopState
       ELSE /\ loopState' = OnMarkError
            /\ UNCHANGED <<status, error>>
  /\ TaskEnds(e)
  /\ UNCHANGED <<source, pollVars, kind, sid, rowProject, rowThread, exc, markDoneCalls,
                 sessions, stop_requested, lockOwner, lockWaiters, running_tasks,
                 cancel_requested, watching, stopNotices, rateVars, stateVars, fnVars>>

\* a listing order of the event types drawn for the queued rows
KindRank(k) ==
  CASE k = "agent_session.created" -> 1
    [] k = "agent_session.prompted" -> 2
    [] k = "agent_session.stopped" -> 3
    [] OTHER -> 4

\* the queue and the loop before the first poll, whatever the payloads hold
\* for the issue lookup and whatever the engines report
InitEvents ==
  /\ source = [r \in RowIds |-> _source]
  /\ status = [r \in RowIds |-> "pending"]
  /\ error = [r \in RowIds |-> ""]
  /\ PollIdle
  /\ loopState = "running"
  /\ kind \in [RowIds -> EventTypes]
  /\ sid \in [RowIds -> Sessions \cup {NoSession}]
  \* the payload of an ignored event is never read, and session ids are
  \* interchangeable: the first row does not name the second session
  /\ \A r \in RowIds : kind[r] \notin RunEvents \cup _STOP_SESSION_EVENTS
                          => sid[r] = NoSession
  /\ sid[1] # "sess_2"
  \* one poll claims every pending row while batch_size >= NumRows, so the rows
  \* are interchangeable: they are listed by event type
  /\ batch_size >= NumRows =>
       \A r \in RowIds : r + 1 \in RowIds => KindRank(kind[r]) <= KindRank(kind[r + 1])
  /\ pc = [r \in RowIds |-> "queued"]
  /\ exc = [r \in RowIds |-> ""]
  /\ markDoneCalls = [r \in RowIds |-> 0]
  /\ markFailedCalls = [r \in RowIds |-> 0]
  /\ SessionsIdle
  /\ RateIdle
  /\ StateIdle
  /\ FnIdle

\* no payload names a configured project and no engine reports a thread: the
\* sessions' resume tokens and contexts stay unset (SpecState draws both)
Init ==
  /\ InitEvents
  /\ rowProject = [r \in RowIds |-> NoId]
  /\ rowThread = [r \in RowIds |-> NoToken]

Next ==
  \/ Poll
  \/ PollError
  \/ \E e \in RowIds : HandleIgnored(e)
  \/ \E e \in RowIds : HandleMissingSession(e)
  \/ \E e \in RowIds : HandleStop(e)
  \/ \E e \in RowIds : StopSendDone(e)
  \/ \E e \in RowIds : AcquireRunLock(e)
  \/ \E e \in RowIds : ResetStop(e)
  \/ \E e \in RowIds : ResolvePrompt(e)
  \/ \E e \in RowIds : ErrSendDone(e)
  \/ \E e \in RowIds : AckDone(e)
  \/ \E e \in RowIds : UnavailSendDone(e)
  \/ \E e \in RowIds : EngineRegister(e)
  \/ \E e \in RowIds : WatchStop(e)
  \/ \E e \in RowIds : EngineFinish(e)
  \/ \E e \in RowIds : PlanFinal(e)
  \/ \E e \in RowIds : MarkDone(e)
  \/ \E e \in RowIds : MarkFailed(e)

Spec == Init /\ [][Next]_vars

\* the step in which the handler of stop event e runs its stop branch
StopStep(e) ==
  /\ pc[e] = "spawned"
  /\ kind[e] \in _STOP_SESSION_EVENTS
  /\ sid[e] # NoSession
  /\ pc'[e] \in {"stop_sending", "ok"}

\* C2: at every instant at most one created/prompted handler of a session is
\* between taking the session's run lock and leaving its scope.
RunLockExclusive ==
  \A s \in Sessions :
    Cardinality({e \in RowIds : sid[e] = s /\ pc[e] \in InRun}) <= 1

\* one handler's engine run is in flight while another handler of the same
\* session waits on the run lock
RunLockExclusiveWitness ==
  \E e, f \in RowIds :
    /\ e # f /\ sid[e] = sid[f]
    /\ pc[e] = "running" /\ pc[f] = "waiting"

\* C3: a handler obtains the run lock, and begins its prompt resolution, only
\* in a step after which no other handler of the same session is inside the
\* lock's scope: the earlier run has left it by then.
RunOrder ==
  [][\A e \in RowIds :
       (pc'[e] \in {"locked", "resolve"} /\ pc'[e] # pc[e]) =>
         \A f \in RowIds \ {e} : sid[f] = sid[e] => pc'[f] \notin InRun]_vars

\* the later-created event of a session ran first and has left the lock's
\* scope; the earlier-created one is now past its prompt resolution
RunOrderWitness ==
  /\ kind[1] \in RunEvents /\ kind[2] \in RunEvents
  /\ sid[1] = sid[2] /\ sid[1] # NoSession
  /\ pc[2] \in {"ok", "raised", "end"}
  /\ pc[1] \in {"acking", "running"}

\* C4: handle_and_mark makes no mark call before the handler has finished and
\* exactly one once it has ended: mark_failed, carrying the exception text, if
\* and only if the handler raised, mark_done otherwise.
MarkExactlyOnce ==
  \A e \in RowIds :
    /\ markDoneCalls[e] + markFailedCalls[e] <= 1
    /\ (markDoneCalls[e] + markFailedCalls[e] = 1) <=> (pc[e] = "end")
    /\ (markFailedCalls[e] = 1) <=> (pc[e] = "end" /\ exc[e] # "")
    /\ (markDoneCalls[e] = 1) <=> (pc[e] = "end" /\ exc[e] = "")
    /\ status[e] = "failed" => (markFailedCalls[e] = 1 /\ error[e] = exc[e])
    /\ status[e] = "done" => markDoneCalls[e] = 1

\* one event ended marked done and another ended marked failed with its text
MarkExactlyOnceWitness ==
  \E e, f \in RowIds :
    /\ pc[e] = "end" /\ status[e] = "done"
    /\ pc[f] = "end" /\ status[f] = "failed" /\ error[f] = MissingPromptText

\* C5: a step in which a handler raises, or in which a mark call returns or
\* fails, leaves the dispatch loop running and changes no other event's task
\* (other than handing it the run lock) or row.
BoundaryContains ==
  [][\A e \in RowIds :
       (pc[e] \in Live /\ pc'[e] \in {"raised", "end"} /\ pc'[e] # pc[e]) =>
         /\ loopState' = "running"
         /\ \A f \in RowIds \ {e} :
              /\ status'[f] = status[f]
              /\ pc'[f] = pc[f] \/ (pc[f] = "waiting" /\ pc'[f] = "locked")]_vars

\* one event's handler raised and its mark_failed call failed too, while the
\* loop still runs and another event's handler is inside its run
BoundaryContainsWitness ==
  \E e, f \in RowIds :
    /\ pc[e] = "end" /\ exc[e] # "" /\ status[e] = "processing"
    /\ pc[f] \in InRun
    /\ loopState = "running"

\* C6: the stop branch, run for a session with at least one registered running
\* task, leaves stop_requested set and the cancellation flag of every
\* registered task set.
StopCancelsAll ==
  [][\A e \in RowIds :
       (StopStep(e) /\ running_tasks[sid[e]] # {}) =>
         /\ stop_requested'[sid[e]]
         /\ \A t \in running_tasks[sid[e]] : cancel_requested'[t]]_vars

\* a stop handler has set the flag of a registered task whose own watcher has
\* not acted
StopCancelsAllWitness ==
  \E e, t \in RowIds :
    /\ kind[e] \in _STOP_SESSION_EVENTS /\ pc[e] = "stop_sending"
    /\ t \in running_tasks[sid[e]]
    /\ cancel_requested[t] /\ watching[t]

\* C7: the stop branch starts exactly one "Stop requested" send if the
\* session's running-task set is non-empty or its run lock is held; otherwise
\* it sends nothing, sets no cancellation flag, touches no lock, task or row
\* and returns; and no other step sends that notification.
StopNotice ==
  [][\A e \in RowIds :
       /\ (StopStep(e) /\ (running_tasks[sid[e]] # {} \/ lockOwner[sid[e]] # NoOne))
            => (stopNotices[e] = 0 /\ stopNotices'[e] = 1)
       /\ (StopStep(e) /\ running_tasks[sid[e]] = {} /\ lockOwner[sid[e]] = NoOne)
            => /\ stopNotices' = stopNotices
               /\ cancel_requested' = cancel_requested
               /\ pc' = [pc EXCEPT ![e] = "ok"]
               /\ UNCHANGED <<status, lockOwner, lockWaiters, running_tasks, watching>>
       /\ stopNotices'[e] # stopNotices[e] => StopStep(e)]_vars

\* a stop handler sent its one notification because the run lock was held,
\* with no running task registered
StopNoticeWitness ==
  \E e \in RowIds :
    /\ pc[e] = "stop_sending" /\ stopNotices[e] = 1
    /\ running_tasks[sid[e]] = {}
    /\ lockOwner[sid[e]] # NoOne

\* C8: stop_requested goes from true to false only in the step a handler takes
\* right after it obtained the session's run lock, and every handler that
\* obtained the lock takes that step once, leaving the flag false.
StopResetOnlyAtAcquire ==
  [][/\ \A s \in Sessions :
          (stop_requested[s] /\ ~stop_requested'[s]) =>
            \E e \in RowIds : /\ sid[e] = s /\ lockOwner[s] = e
                              /\ pc[e] = "locked" /\ pc'[e] = "resolve"
     /\ \A e \in RowIds :
          (pc[e] = "locked" /\ pc'[e] \notin {"locked", "cancelled"}) =>
            (pc'[e] = "resolve" /\ ~stop_requested'[sid[e]])]_vars

\* a stop event of the session was handled, and a handler that took the lock
\* afterwards has cleared the flag
StopResetOnlyAtAcquireWitness ==
  \E e, f \in RowIds :
    /\ kind[f] \in _STOP_SESSION_EVENTS /\ sid[f] = sid[e] /\ sid[e] # NoSession
    /\ pc[f] \in {"ok", "end"}
    /\ pc[e] \in {"resolve", "acking"}
    /\ ~stop_requested[sid[e]]

\* C9: a run lock is owned only by a handler that is inside the lock's scope;
\* once a handler has returned, raised or been cancelled it owns no lock, and
\* no handler waits on a lock that nobody owns.
LockReleasedOnExit ==
  /\ \A s \in Sessions :
       lockOwner[s] # NoOne => (pc[lockOwner[s]] \in InRun /\ sid[lockOwner[s]] = s)
  /\ \A s \in Sessions : lockOwner[s] = NoOne => lockWaiters[s] = <<>>
  /\ \A e \in RowIds : pc[e] = "waiting" => lockOwner[sid[e]] \notin {NoOne, e}

\* a handler left the lock's scope by an error and another handler of the same
\* session owns the lock after it
LockReleasedOnExitWitness ==
  \E e, f \in RowIds :
    /\ e # f /\ sid[e] = sid[f]
    /\ kind[e] \in RunEvents
    /\ pc[e] \in {"raised", "end"}
    /\ exc[e] \in {MissingPromptText, SendFailedText, EngineFailedText}
    /\ lockOwner[sid[f]] = f


\* ======================================================================
\* SpecRate: _RateLimiter.acquire() under a discrete monotonic clock
\* ======================================================================

\* while self._events and self._events[0] <= cutoff: self._events.popleft()
RECURSIVE Purge(_, _)
Purge(evs, cutoff) ==
  IF evs # <<>> /\ Head(evs) <= cutoff THEN Purge(Tail(evs), cutoff) ELSE evs

\* the capacity test with <= in place of <
HasCapacity_OffByOne(evs) == Len(evs) <= max_requests

\* if len(self._events) < self.max_requests
HasCapacity(evs) == Len(evs) < max_requests

\* a task calls acquire(): it is now at "async with self._lock"
AcquireCall(a) ==
  /\ acqPc[a] = "idle"
  /\ Len(returns) + Cardinality({b \in Acquirers : acqPc[b] # "idle"}) < MaxCalls
  /\ acqPc' = [acqPc EXCEPT ![a] = "waiting"]
  /\ UNCHANGED <<clock, _events, _lock, wakeAt, returns,
                 tableVars, pollVars, loopVars, sessionVars, stateVars, fnVars>>

\* a mutex that lets every caller in
MutexFree_Always == TRUE

\* async with self._lock: entered only while no other acquirer holds it
MutexFree == _lock = NoOne

\* acquire() from the mutex to its return, or to its sleep when the window is
\* full; the mutex is taken here and kept over the sleep
Acquire(a) ==
  /\ acqPc[a] = "waiting"
  /\ IF max_requests <= 0
     THEN /\ returns' = Append(returns, clock)
          /\ acqPc' = [acqPc EXCEPT ![a] = "idle"]
          /\ UNCHANGED <<_events, _lock, wakeAt>>
     ELSE /\ MutexFree
          /\ LET now == clock
                 kept == Purge(_events, now - window_s)
             IN IF HasCapacity(kept)
                THEN /\ _events' = Append(kept, now)
                     /\ returns' = Append(returns, now)
                     /\ acqPc' = [acqPc EXCEPT ![a] = "idle"]
                     /\ UNCHANGED <<_lock, wakeAt>>
                ELSE LET sleep_for == (Head(kept) + window_s) - now
                     IN IF sleep_for > 0
                        THEN /\ _events' = kept
                             /\ _lock' = a
                             /\ acqPc' = [acqPc EXCEPT ![a] = "sleeping"]
                             /\ wakeAt' = [wakeAt EXCEPT ![a] = now + sleep_for]
                             /\ UNCHANGED returns
                        ELSE /\ _events' = Append(Purge(kept, now - window_s), now)
                             /\ returns' = Append(returns, now)
                             /\ acqPc' = [acqPc EXCEPT ![a] = "idle"]
                             /\ UNCHANGED <<_lock, wakeAt>>
  /\ UNCHANGED <<clock, tableVars, pollVars, loopVars, sessionVars, stateVars, fnVars>>

\* acquire() after anyio.sleep(sleep_for): read the clock again, purge, record,
\* release the mutex and return; the sleep lasts at least sleep_for
Wake(a) ==
  /\ acqPc[a] = "sleeping"
  /\ clock >= wakeAt[a]
  /\ _events' = Append(Purge(_events, clock - window_s), clock)
  /\ returns' = Append(returns, clock)
  /\ _lock' = NoOne
  /\ acqPc' = [acqPc EXCEPT ![a] = "idle"]
  /\ UNCHANGED <<clock, wakeAt, tableVars, pollVars, loopVars, sessionVars, stateVars, fnVars>>

\* time.monotonic advances
Tick ==
  /\ clock < MaxClock
  /\ clock' = clock + 1
  /\ UNCHANGED <<_events, _lock, acqPc, wakeAt, returns,
                 tableVars, pollVars, loopVars, sessionVars, stateVars, fnVars>>

InitRate ==
  /\ RateIdle
  /\ source = [r \in RowIds |-> _source]
  /\ status = [r \in RowIds |-> "pending"]
  /\ error = [r \in RowIds |-> ""]
  /\ PollIdle /\ LoopIdle /\ SessionsIdle /\ StateIdle /\ FnIdle

NextRate ==
  \/ \E a \in Acquirers : AcquireCall(a)
  \/ \E a \in Acquirers : Acquire(a)
  \/ \E a \in Acquirers : Wake(a)
  \/ Tick

SpecRate == InitRate /\ [][NextRate]_vars

\* C10: with capacity max_requests > 0, the (max_requests+1)-th of any run of
\* consecutive acquire() returns comes at least window_s after the first, so no
\* rolling window of length window_s holds more than max_requests returns.
SlidingWindowLimit ==
  max_requests > 0 =>
    \A i \in 1..Len(returns) :
      i + max_requests <= Len(returns) =>
        returns[i + max_requests] >= returns[i] + window_s

\* an acquirer found the window full, slept, and its return came exactly one
\* window after the return max_requests calls earlier
SlidingWindowLimitWitness ==
  \E a \in Acquirers :
    /\ acqPc[a] = "idle" /\ wakeAt[a] > 0
    /\ Len(returns) > max_requests
    /\ returns[Len(returns)] = wakeAt[a]
    /\ returns[Len(returns)] = returns[Len(returns) - max_requests] + window_s

\* C11: acquirers are admitted one at a time. At most one acquirer is inside the
\* mutex, and it holds it from its purge over its sleep to its recording; while
\* it holds it, the recorded list and the returns change only by its own
\* recording step, so a caller that arrives at a full window waits and the list
\* never holds more than max_requests entries.
AdmittedOneAtATime ==
  /\ [](/\ Cardinality({a \in Acquirers : acqPc[a] = "sleeping"}) <= 1
        /\ \A a \in Acquirers : acqPc[a] = "sleeping" <=> _lock = a
        /\ max_requests > 0 => Len(_events) <= max_requests)
  /\ [][_lock # NoOne /\ (_events' # _events \/ returns' # returns) =>
          /\ acqPc[_lock] = "sleeping" /\ acqPc'[_lock] = "idle"
          /\ _lock' = NoOne
          /\ Len(returns') = Len(returns) + 1]_vars

\* the window is full, one acquirer sleeps inside the mutex and a concurrent
\* caller waits at it
AdmittedOneAtATimeWitness ==
  \E a, b \in Acquirers :
    /\ acqPc[a] = "sleeping" /\ clock < wakeAt[a]
    /\ acqPc[b] = "waiting"
    /\ Len(_events) = max_requests

\* ======================================================================
\* one poll() call: what it selects, returns and changes
\* ======================================================================

\* the step in which caller c's poll() executes its claim statement
ClaimStep(c) == pollPc[c] = "idle" /\ pollPc'[c] = "claimed"

\* the step in which caller c's poll() commits and returns
CommitStep(c) == pollPc[c] = "claimed" /\ pollPc'[c] = "idle"

\* the claim selects pending rows of the configured source that no other claimant
\* has locked: as many as there are up to batch_size (none when there are none),
\* never leaving out an older such row for a newer one, and changes no row yet
SelectsOldestPending(c) ==
  LET eligible == {r \in Rows : /\ source[r] = _source
                                /\ status[r] = "pending"
                                /\ rowLock[r] = NoOne}
      want == IF Cardinality(eligible) < batch_size THEN Cardinality(eligible)
              ELSE batch_size
  IN /\ claimed'[c] \subseteq eligible
     /\ Cardinality(claimed'[c]) = want
     /\ \A r \in claimed'[c] : \A q \in eligible \ claimed'[c] :
          created_at(r) < created_at(q)
     /\ UNCHANGED tableVars

\* the call returns each claimed row once and nothing else; after the commit
\* exactly these rows have gone from pending to processing and every other row,
\* and every other column, is as before
ReturnsAndFlipsClaimed(c) ==
  /\ Len(lastBatch') = Cardinality(claimed[c])
  /\ {lastBatch'[i] : i \in DOMAIN lastBatch'} = claimed[c]
  /\ \A r \in claimed[c] : status[r] = "pending" /\ rowLock[r] = c
  /\ status' = [r \in Rows |-> IF r \in claimed[c] THEN "processing" ELSE status[r]]
  /\ source' = source /\ error' = error

\* the list q is in creation-time order
InCreationOrder(q) ==
  \A i, j \in DOMAIN q : i < j => created_at(q[i]) < created_at(q[j])

\* C12 as stated: one poll() returns at most batch_size rows, all pending, of the
\* configured source and unlocked, chosen oldest-first and returned in
\* creation-time order; its commit flips exactly the returned rows.
PollFrameInCreationOrder ==
  [][\A c \in Callers :
       /\ ClaimStep(c) => SelectsOldestPending(c)
       /\ CommitStep(c) => /\ ReturnsAndFlipsClaimed(c)
                           /\ InCreationOrder(lastBatch')]_vars

\* C12: one poll() returns at most batch_size rows, all of which were pending,
\* of the configured source and not locked by another claimant, chosen
\* oldest-first; after its commit exactly the returned rows have status
\* processing and every other row is unchanged; with no such row it returns the
\* empty list. The order of the returned list is the order in which the storage
\* hands back the updated rows, which the statement does not fix.
PollFrame ==
  [][\A c \in Callers :
       /\ ClaimStep(c) => SelectsOldestPending(c)
       /\ CommitStep(c) => ReturnsAndFlipsClaimed(c)]_vars

\* a poll() has returned a full batch whose first row is newer than its second,
\* and a younger pending row of the source was left for a later call
PollFrameWitness ==
  /\ Len(lastBatch) = batch_size
  /\ created_at(lastBatch[1]) > created_at(lastBatch[2])
  /\ \E r \in Rows : /\ source[r] = _source /\ status[r] = "pending"
                      /\ \A i \in DOMAIN lastBatch :
                           created_at(lastBatch[i]) < created_at(r)

\* ======================================================================
\* mark_done / mark_failed as operations on the table
\* ======================================================================

\* C13 as stated: once a row is done or failed, no later operation changes its
\* status or its error.
TerminalNeverChanges ==
  [][\A r \in Rows :
       status[r] \in {"done", "failed"} =>
         status'[r] = status[r] /\ error'[r] = error[r]]_vars

\* C13: mark_done(id) leaves the row done and mark_failed(id, error) leaves it
\* failed with the error text; applying the same call twice gives the same
\* status and error as applying it once; a call with an id that is not in the
\* table changes no row; no poll() changes a done or failed row and no operation
\* takes it back to pending or processing. A later mark_done or mark_failed
\* with the same id does overwrite the status, and mark_failed the error.
MarkTerminal ==
  /\ [](\A id \in MarkIds, text \in ErrorTexts :
          LET st1 == DoneSql(status, id)
              st2 == FailedSql(status, id)
              er2 == FailedSqlError(error, id, text)
          IN /\ id \in Rows => st1[id] = "done"
             /\ id \in Rows => st2[id] = "failed" /\ er2[id] = text
             /\ DoneSql(st1, id) = st1
             /\ FailedSql(st2, id) = st2 /\ FailedSqlError(er2, id, text) = er2
             /\ \A r \in Rows \ {id} :
                  st1[r] = status[r] /\ st2[r] = status[r] /\ er2[r] = error[r])
  /\ [][\A r \in Rows :
         status[r] \in {"done", "failed"} =>
           /\ status'[r] \in {"done", "failed"}
           /\ (status'[r] # status[r] \/ error'[r] # error[r]) =>
                 pollPc' = pollPc /\ claimed' = claimed]_vars

\* a row that was marked failed and later marked done: its status was
\* overwritten and the error text of the failure is still in its error column
MarkTerminalWitness ==
  \E r \in Rows : status[r] = "done" /\ error[r] \in ErrorTexts

\* ======================================================================
\* errors on the way through the dispatch loop and the handler
\* ======================================================================

\* C14: a storage error raised by poll() is fatal for that poll cycle only: the
\* dispatch loop goes on polling and no handler that was running is stopped.
PollErrorContained ==
  [][/\ loopState' = "running"
     /\ \A e \in RowIds : pc[e] \in Live => pc'[e] # "cancelled"]_vars

\* the handler of e is at or past the runner-unavailable error send and has not
\* raised: it posted its one error message on this path
Unavailable(e) ==
  /\ pc[e] \in {"unavail", "plan_final", "ok"}
  /\ errorSends[e] = 1

\* C15 as stated: with no usable runner the handler posts one error message,
\* never starts the engine and never raises.
UnavailableNeverRaises ==
  [][\A e \in RowIds :
       pc[e] = "unavail" =>
         /\ errorSends[e] = 1 /\ errorSends'[e] = 1
         /\ ~watching'[e] /\ e \notin running_tasks'[sid[e]]
         /\ pc'[e] # "raised"]_vars

\* C15: with no usable runner the handler posts exactly one error message and
\* never starts the engine. When that send returns, the handler returns without
\* raising and mark_done, not mark_failed, is called for the event; when the send
\* itself raises, its exception leaves the handler.
UnavailableHandled ==
  /\ [](\A e \in RowIds :
          /\ errorSends[e] <= 1
          /\ Unavailable(e) =>
               /\ exc[e] = "" /\ ~watching[e] /\ e \notin running_tasks[sid[e]]
               /\ markDoneCalls[e] = 0 /\ markFailedCalls[e] = 0)
  /\ [][\A e \in RowIds :
         Unavailable(e) /\ pc'[e] \notin {pc[e], "cancelled"} =>
           \/ pc[e] = "unavail" /\ pc'[e] = "raised" /\ exc'[e] = SendFailedText
           \/ pc[e] # "ok" /\ pc'[e] \in {"plan_final", "ok"} /\ Unavailable(e)'
           \/ /\ pc[e] = "ok" /\ pc'[e] = "end"
              /\ markDoneCalls'[e] = 1 /\ markFailedCalls'[e] = 0]_vars

\* a handler whose runner was unavailable has posted its one error message and
\* returned without raising, its run lock released
UnavailableHandledWitness ==
  \E e \in RowIds :
    /\ pc[e] = "ok" /\ errorSends[e] = 1 /\ exc[e] = ""
    /\ lockOwner[sid[e]] # e

\* a created, prompted or stop event whose payload yields no session id
NoSessionEvent(e) ==
  kind[e] \in RunEvents \cup _STOP_SESSION_EVENTS /\ sid[e] = NoSession

\* C16: a created, prompted or stop event without a session id fails before any
\* session state is created, any run lock is taken or waited for and any engine
\* run is started; mark_failed is called once with the error text, mark_done
\* never, and the row never returns to pending, so no poll claims it again.
MissingSessionFails ==
  /\ [](/\ NoSession \notin sessions
        /\ \A e \in RowIds :
             NoSessionEvent(e) =>
               /\ pc[e] \in {"queued", "spawned", "raised", "end", "cancelled"}
               /\ \A s \in Sessions :
                    /\ lockOwner[s] # e /\ e \notin running_tasks[s]
                    /\ \A i \in DOMAIN lockWaiters[s] : lockWaiters[s][i] # e
               /\ ~watching[e] /\ stopNotices[e] = 0
               /\ returned[e] <= 1 /\ markDoneCalls[e] = 0
               /\ pc[e] = "raised" => exc[e] = MissingSessionText
               /\ markFailedCalls[e] = (IF pc[e] = "end" THEN 1 ELSE 0)
               /\ status[e] # "done"
               /\ status[e] = "failed" => pc[e] = "end" /\ error[e] = MissingSessionText)
  /\ [][\A e \in RowIds :
         NoSessionEvent(e) =>
           /\ status[e] # "pending" => status'[e] # "pending"
           /\ pc[e] = "spawned" /\ pc'[e] = "raised" =>
                UNCHANGED <<sessions, stop_requested, lockOwner, lockWaiters,
                            running_tasks, cancel_requested>>]_vars

\* an event without a session id has been marked failed with the error text
\* while the handler of another event holds the run lock of its session
MissingSessionFailsWitness ==
  \E e, f \in RowIds :
    /\ NoSessionEvent(e) /\ pc[e] = "end"
    /\ status[e] = "failed" /\ error[e] = MissingSessionText
    /\ sid[f] # NoSession /\ lockOwner[sid[f]] = f
    /\ sessions = {sid[f]}

\* C17: whenever a handler has raised, so that mark_failed is about to be called
\* for its event, it has posted exactly one error message to the session.
ErrorMessageBeforeFailed ==
  \A e \in RowIds : pc[e] = "raised" => errorSends[e] = 1

\* the step in which the engine run of e ends (handle_message returns or raises)
RunEnds(e) == pc[e] = "running" /\ pc'[e] \notin {"running", "cancelled"}

\* C18 as stated: after the engine run of an event completes with any outcome
\* the handler starts a plan update while it still holds the run lock.
PlanUpdateAfterEveryRun ==
  [][\A e \in RowIds :
       RunEnds(e) => pc'[e] = "plan_final" /\ lockOwner'[sid[e]] = e]_vars

\* C18: after the engine run of a created event returns normally with no stop
\* request set for its session, the handler starts one plan update while it
\* holds the run lock and releases the lock when that call is over; after the
\* run of a prompted event, after a run that raised and after a stop request it
\* releases the lock without a plan update.
PlanUpdateAfterRun ==
  /\ [](\A e \in RowIds :
          pc[e] = "plan_final" =>
            kind[e] = "agent_session.created" /\ lockOwner[sid[e]] = e)
  /\ [][\A e \in RowIds :
         /\ RunEnds(e) =>
              IF /\ kind[e] = "agent_session.created"
                 /\ ~stop_requested[sid[e]]
                 /\ exc'[e] = ""
              THEN pc'[e] = "plan_final" /\ lockOwner'[sid[e]] = e
              ELSE pc'[e] \in {"ok", "raised"} /\ lockOwner'[sid[e]] # e
         /\ pc[e] = "plan_final" /\ pc'[e] \notin {"plan_final", "cancelled"} =>
              pc'[e] = "ok" /\ lockOwner'[sid[e]] # e]_vars

\* the run of a created event has returned and its handler is in the final plan
\* update, still owning the run lock
PlanUpdateAfterRunWitness ==
  \E e \in RowIds :
    /\ pc[e] = "plan_final" /\ errorSends[e] = 0
    /\ lockOwner[sid[e]] = e /\ ~stop_requested[sid[e]]

\* C19: a failed plan update never makes the handler raise and never keeps the
\* run lock: after a failed initial update the handler goes on to its prompt
\* (and from there to the engine run), after a failed final update it releases
\* the lock and returns, so that mark_done is called.
PlanFailureSwallowed ==
  /\ [](\A e \in RowIds :
          /\ planFailures[e] <= 2
          /\ planFailures[e] > 0 => kind[e] = "agent_session.created")
  /\ [][\A e \in RowIds :
         planFailures'[e] > planFailures[e] =>
           IF pc[e] = "plan_final"
           THEN /\ pc'[e] = "ok" /\ exc'[e] = ""
                /\ lockOwner'[sid[e]] # e
           ELSE /\ pc[e] = "resolve"
                /\ \/ pc'[e] \in {"acking", "errsend"} /\ exc'[e] = ""
                   \/ pc'[e] = "raised" /\ exc'[e] = NoAttributeText]_vars

\* both plan updates of a created event failed; its engine run took place in
\* between and the handler has returned without raising, the lock released
PlanFailureSwallowedWitness ==
  \E e \in RowIds :
    /\ planFailures[e] = 2 /\ errorSends[e] = 0
    /\ pc[e] = "ok" /\ exc[e] = ""
    /\ lockOwner[sid[e]] # e

\* C20: the prompt resolution of a prompted event ends with a prompt (local or
\* fetched through get_agent_activity) and the acknowledgement, or with the
\* missing-prompt message; the fetch never makes the handler raise.
FetchedPromptRuns ==
  [][\A e \in RowIds :
       kind[e] = "agent_session.prompted" /\ pc[e] = "resolve" =>
         pc'[e] \in {"resolve", "acking", "errsend", "cancelled"}]_vars

\* ======================================================================
\* SpecPrompt: one created/prompted handler from the issue lookup to the end
\* of its engine run (_handle_event, _run_engine_for_session), for session
\* "sess_1". Texts are tuples of characters.
\* ======================================================================

FixBug == <<"F", "i", "x", " ", "b", "u", "g">>
\* agentSession.issue.title of the payload, as received
IssueTitles == {None, <<>>, <<" ">>, FixBug, <<" ">> \o FixBug \o <<" ">>}
\* agentActivity.body of the payload, as received
PromptBodies == {None, <<"g", "o", " ">>}
IssueIds == {NoId, "iss_1"}
\* what get_issue gives: nothing (LinearApiError) or the issue node
IssueAnswers ==
  {NoIssue} \cup {[ok |-> TRUE, title |-> t, project_id |-> p] :
                    t \in {None, <<"A", "p", "i">>}, p \in {NoId, "proj_1"}}

\* str.strip()
RECURSIVE lstrip(_)
lstrip(s) == IF s # <<>> /\ Head(s) = " " THEN lstrip(Tail(s)) ELSE s

RECURSIVE rstrip(_)
rstrip(s) ==
  IF s # <<>> /\ s[Len(s)] = " " THEN rstrip(SubSeq(s, 1, Len(s) - 1)) ELSE s

strip(s) == rstrip(lstrip(s))

\* _coerce_text: the stripped text if the value is a str with anything but
\* whitespace in it, else None
_coerce_text(value) ==
  IF value = None THEN None
  ELSE IF strip(value) = <<>> THEN None ELSE strip(value)

\* Python's `a or b` on texts: None and "" are falsy
Or(a, b) == IF a # None /\ a # <<>> THEN a ELSE b

\* _extract_issue_title: the stripped title, None for a missing or blank one
_extract_issue_title(p) == _coerce_text(p.title)

\* _extract_prompt_body on a payload whose only prompt text is agentActivity.body
_extract_prompt_body(p) == _coerce_text(p.body)

\* the answer of get_issue the handler holds in issue_from_api: it asks only for
\* a created event with an issue id that lacks the project id or the title
issue_from_api(k, p, answer) ==
  IF /\ k = "agent_session.created"
     /\ p.issue_id # NoId
     /\ (p.project_id = NoId \/ _extract_issue_title(p) = None)
  THEN answer
  ELSE NoIssue

\* project_id after the lookup: the payload's, else the fetched issue's
project_id(k, p, answer) ==
  IF /\ k = "agent_session.created"
     /\ p.project_id = NoId
     /\ issue_from_api(k, p, answer).ok
     /\ issue_from_api(k, p, answer).project_id # NoId
  THEN issue_from_api(k, p, answer).project_id
  ELSE p.project_id

\* issue_title after the lookup: the payload's, else the fetched issue's
issue_title(k, p, answer) ==
  IF /\ k = "agent_session.created"
     /\ _extract_issue_title(p) = None
     /\ issue_from_api(k, p, answer).ok
  THEN Or(_coerce_text(issue_from_api(k, p, answer).title), _extract_issue_title(p))
  ELSE _extract_issue_title(p)

\* the prompt of a created event taken from the prompt body before the title
LocalPrompt_BodyFirst(k, p, answer) ==
  Or(_extract_prompt_body(p), issue_title(k, p, answer))

\* prompt = issue_title or _extract_prompt_body(payload) for a created event,
\* _extract_prompt_body(payload) for a prompted one
LocalPrompt(k, p, answer) ==
  IF k = "agent_session.created"
  THEN Or(issue_title(k, p, answer), _extract_prompt_body(p))
  ELSE _extract_prompt_body(p)

\* _handle_event from the issue lookup to the prompt decision
ResolveLocalPrompt ==
  /\ promptPc = "start"
  /\ context' = [context EXCEPT !["sess_1"] =
                   ContextAfterLookup(@, project_id(normalized, payload, get_issue_result))]
  /\ prompt' = LocalPrompt(normalized, payload, get_issue_result)
  /\ promptPc' = IF prompt' = None THEN "no_prompt" ELSE "acking"
  /\ UNCHANGED <<normalized, payload, get_issue_result, run_text, engineRuns, resume,
                 tableVars, pollVars, loopVars, sessionVars, rateVars, calls, unwrapVars,
                 normalizeVars, connCalls, auxVars>>

\* no local prompt: the remote fetch gives none either and the handler raises
NoPrompt ==
  /\ promptPc = "no_prompt"
  /\ promptPc' = "raised"
  /\ UNCHANGED <<normalized, payload, get_issue_result, prompt, run_text, engineRuns,
                 stateVars, tableVars, pollVars, loopVars, sessionVars, rateVars, calls, unwrapVars,
                 normalizeVars, connCalls, auxVars>>

\* the acknowledgement send raises, a stop request has arrived, or no runner
\* is available: the handler ends without an engine run
NoRun ==
  /\ promptPc = "acking"
  /\ promptPc' = "ended"
  /\ UNCHANGED <<normalized, payload, get_issue_result, prompt, run_text, engineRuns,
                 stateVars, tableVars, pollVars, loopVars, sessionVars, rateVars, calls, unwrapVars,
                 normalizeVars, connCalls, auxVars>>

\* _run_engine_for_session(text=prompt) up to the start of the task group
StartRun ==
  /\ promptPc = "acking"
  /\ promptPc' = "running"
  /\ run_text' = resolve_message(prompt, context["sess_1"]).prompt
  /\ engineRuns' = engineRuns + 1
  /\ UNCHANGED <<normalized, payload, get_issue_result, prompt,
                 stateVars, tableVars, pollVars, loopVars, sessionVars, rateVars, calls, unwrapVars,
                 normalizeVars, connCalls, auxVars>>

\* the task group is left: state.context = context, the resolved context
FinishRun ==
  /\ promptPc = "running"
  /\ promptPc' = "ended"
  /\ context' = [context EXCEPT !["sess_1"] = resolve_message(run_text, @).context]
  /\ UNCHANGED <<normalized, payload, get_issue_result, prompt, run_text, engineRuns,
                 resume, tableVars, pollVars, loopVars, sessionVars, rateVars, calls, unwrapVars,
                 normalizeVars, connCalls, auxVars>>

InitPrompt ==
  /\ normalized \in RunEvents
  /\ payload \in [title : IssueTitles, body : PromptBodies,
                  project_id : ProjectIds, issue_id : IssueIds]
  /\ get_issue_result \in IssueAnswers
  /\ promptPc = "start"
  /\ prompt = None
  /\ run_text = None
  /\ engineRuns = 0
  /\ resume = [s \in Sessions |-> NoToken]
  \* an earlier event of the session may have set its context
  /\ context \in [Sessions -> {NoContext, "alpha"}]
  /\ context["sess_2"] = NoContext
  /\ source = [r \in RowIds |-> _source]
  /\ status = [r \in RowIds |-> "pending"]
  /\ error = [r \in RowIds |-> ""]
  /\ PollIdle /\ LoopIdle /\ SessionsIdle /\ RateIdle
  /\ calls = [a \in Acquirers |-> NoCall]
  /\ ConnIdle /\ AuxIdle
  /\ UnwrapIdle /\ NormalizeIdle

NextPrompt ==
  \/ ResolveLocalPrompt
  \/ NoPrompt
  \/ NoRun
  \/ StartRun
  \/ FinishRun

SpecPrompt == InitPrompt /\ [][NextPrompt]_vars

\* a created event that carries an issue title and whose project id, the
\* payload's or the fetched issue's, is none of the configured ones
TitledNoProject ==
  /\ normalized = "agent_session.created"
  /\ _extract_issue_title(payload) # None
  /\ project_id(normalized, payload, get_issue_result) \notin DOMAIN project_map

\* C21: the handler of a created event with an issue title and no project id of
\* a configured project starts at most one engine run; once it has passed the
\* acknowledgement and started the run, that is exactly one run and its prompt
\* is the issue title as _extract_issue_title gives it, surrounding whitespace
\* stripped (title "Fix bug" gives "Fix bug"); and no step of the handler
\* changes the session's context, so a context that was unset stays unset.
CreatedTitlePrompt ==
  /\ [](TitledNoProject =>
          /\ engineRuns <= 1
          /\ promptPc = "running" =>
               /\ engineRuns = 1
               /\ run_text = strip(payload.title)
               /\ payload.title = FixBug => run_text = FixBug
          /\ promptPc \notin {"no_prompt", "raised"})
  /\ [][TitledNoProject => context' = context]_vars

\* the created event with title "Fix bug", a prompt body, and a project id that
\* is not configured has had its run with prompt "Fix bug"; the context is unset
CreatedTitlePromptWitness ==
  /\ TitledNoProject
  /\ payload.title = FixBug /\ payload.body # None /\ payload.project_id = "proj_9"
  /\ promptPc = "ended" /\ engineRuns = 1 /\ run_text = FixBug
  /\ context["sess_1"] = NoContext

\* the step in which the handler of e obtains its session's state
\* (sessions.setdefault, the first statement after the session-id test)
TouchStep(e) ==
  /\ pc[e] = "spawned" /\ pc'[e] \in {"locked", "waiting", "stop_sending", "ok"}
  /\ kind[e] \in RunEvents \cup _STOP_SESSION_EVENTS
  /\ sid[e] # NoSession

\* C22: each session id has one state for the life of the process: no state
\* exists outside the sessions dict, an id once stored stays stored, and a
\* handler that obtains the state of a stored id gets the stored one - its run
\* lock keeps its owner and its stop request, and a created/prompted handler
\* that finds the lock owned queues behind the owner.
OneStatePerSession ==
  /\ [](\A s \in Sessions \ sessions :
          /\ lockOwner[s] = NoOne /\ lockWaiters[s] = <<>>
          /\ ~stop_requested[s] /\ running_tasks[s] = {})
  /\ [][/\ sessions \subseteq sessions'
        /\ \A e \in RowIds :
             TouchStep(e) =>
               /\ sid[e] \in sessions'
               /\ sid[e] \in sessions /\ lockOwner[sid[e]] # NoOne =>
                    /\ lockOwner'[sid[e]] = lockOwner[sid[e]]
                    /\ stop_requested[sid[e]] => stop_requested'[sid[e]]
                    /\ kind[e] \in RunEvents =>
                         /\ pc'[e] = "waiting"
                         /\ lockWaiters'[sid[e]] = Append(lockWaiters[sid[e]], e)]_vars

\* two created/prompted events of one brand-new session have both obtained its
\* state: one owns the run lock, the other waits for the same lock
OneStatePerSessionWitness ==
  \E e, f \in RowIds :
    /\ e # f /\ sid[e] = sid[f] /\ sid[e] \in sessions
    /\ lockOwner[sid[e]] = e /\ lockWaiters[sid[e]] = <<f>>
    /\ pc[f] = "waiting"

\* C23: handlers of different sessions do not wait for each other. While the
\* loop runs, a created/prompted handler whose own session's run lock is free
\* can take it at once, whatever the locks of other sessions; and a handler
\* that owns its lock can always take its next step up to the start of its
\* engine run, whatever the handlers of other sessions are doing.
SessionsIndependent ==
  \A e \in RowIds :
    loopState = "running" =>
      /\ /\ pc[e] = "spawned" /\ kind[e] \in RunEvents /\ sid[e] # NoSession
         /\ lockOwner[sid[e]] = NoOne /\ lockWaiters[sid[e]] = <<>>
         => ENABLED (AcquireRunLock(e) /\ pc'[e] = "locked")
      /\ pc[e] = "locked" => ENABLED ResetStop(e)
      /\ pc[e] = "resolve" => ENABLED (ResolvePrompt(e) /\ pc'[e] = "acking")
      /\ pc[e] = "acking" /\ ~stop_requested[sid[e]]
           => ENABLED (AckDone(e) /\ pc'[e] = "running")

\* the engine runs of two sessions are in progress at once, each handler
\* owning the run lock of its own session
SessionsIndependentWitness ==
  \E e, f \in RowIds :
    /\ sid[e] # sid[f]
    /\ pc[e] = "running" /\ pc[f] = "running"
    /\ lockOwner[sid[e]] = e /\ lockOwner[sid[f]] = f
    /\ e \in running_tasks[sid[e]]

\* the step in which the watch_stop task of e's run passes a stop request on
WatcherCancelStep(e) ==
  /\ pc[e] = "running" /\ pc'[e] = "running"
  /\ watching[e] /\ ~watching'[e]

\* C24: cancellation is cooperative. A stop handler's step and a stop-watcher's
\* step change nothing of any other handler but cancellation flags: no
\* handler's position, no lock owner, no wait queue, no registered task. A
\* handler whose engine run is in progress owns the run lock, and keeps it in
\* every step that leaves its run in progress.
CooperativeCancel ==
  /\ [](\A e \in RowIds : pc[e] = "running" => lockOwner[sid[e]] = e)
  /\ [][\A e \in RowIds :
          /\ StopStep(e) =>
               /\ \A f \in RowIds \ {e} : pc'[f] = pc[f]
               /\ lockOwner' = lockOwner /\ lockWaiters' = lockWaiters
               /\ running_tasks' = running_tasks /\ watching' = watching
               /\ stop_requested'[sid[e]]
          /\ WatcherCancelStep(e) =>
               /\ pc' = pc
               /\ lockOwner' = lockOwner /\ lockWaiters' = lockWaiters
               /\ running_tasks' = running_tasks
               /\ stop_requested' = stop_requested
          /\ pc[e] = "running" /\ pc'[e] = "running" =>
               lockOwner'[sid[e]] = e]_vars

\* a stop event has been handled and the watcher has passed it on, the run's
\* flag is set, and the run is still in progress with its lock held
CooperativeCancelWitness ==
  \E e, f \in RowIds :
    /\ kind[f] \in _STOP_SESSION_EVENTS /\ sid[f] = sid[e] /\ pc[f] \in {"ok", "end"}
    /\ pc[e] = "running" /\ cancel_requested[e] /\ ~watching[e]
    /\ stop_requested[sid[e]]
    /\ lockOwner[sid[e]] = e

\* ======================================================================
\* SpecClient: calls of the LinearClient operations the service makes
\* (client.py), each from the call to its return or exception
\* ======================================================================

\* create activity, update session, update plan, fetch issue, fetch activity
ClientOperations ==
  {"create_agent_activity", "update_agent_session", "set_agent_plan",
   "get_issue", "get_agent_activity"}

\* what the POST of graphql() ends with
Responses ==
  {"transport_error", "http_error", "invalid_json", "not_an_object",
   "graphql_errors", "no_data", "data"}

\* graphql(): every ending of the request but a `data` object raises
\* LinearApiError
graphql(response) == IF response = "data" THEN "" ELSE "LinearApiError"

\* the operation is called; one that LinearClient does not define raises
\* AttributeError at the attribute lookup, before anything else happens
CallOperation(a, op) ==
  /\ calls[a].pc = "idle"
  /\ calls' = [calls EXCEPT ![a] =
       IF op \in LinearClientMethods
       THEN [NoCall EXCEPT !.op = op, !.pc = "acquire"]
       ELSE [NoCall EXCEPT !.op = op, !.pc = "raised", !.raised = "AttributeError"]]
  /\ UNCHANGED <<tableVars, pollVars, loopVars, sessionVars, rateVars, stateVars,
                 promptVars, unwrapVars, normalizeVars, connCalls, auxVars>>

\* graphql(): `await self._rate.acquire()` returns
RateAcquired(a) ==
  /\ calls[a].pc = "acquire"
  /\ calls' = [calls EXCEPT ![a].acquires = @ + 1, ![a].pc = "post"]
  /\ UNCHANGED <<tableVars, pollVars, loopVars, sessionVars, rateVars, stateVars,
                 promptVars, unwrapVars, normalizeVars, connCalls, auxVars>>

\* graphql(): the request is sent and its ending examined
Post(a) ==
  /\ calls[a].pc = "post"
  /\ \E response \in Responses :
       calls' = [calls EXCEPT ![a].sent = TRUE,
                              ![a].raised = graphql(response),
                              ![a].pc = IF graphql(response) = "" THEN "unpack"
                                        ELSE "raised"]
  /\ UNCHANGED <<tableVars, pollVars, loopVars, sessionVars, rateVars, stateVars,
                 promptVars, unwrapVars, normalizeVars, connCalls, auxVars>>

\* the operation reads its node out of the data: a missing node or a false
\* `success` raises LinearApiError (update_agent_session and set_agent_plan
\* accept a missing agentSession node)
Unpack(a) ==
  /\ calls[a].pc = "unpack"
  /\ \E success \in BOOLEAN, node \in BOOLEAN :
       LET ok == /\ calls[a].op # "get_issue" => success
                 /\ calls[a].op \notin {"update_agent_session", "set_agent_plan"} => node
       IN calls' = [calls EXCEPT ![a].pc = IF ok THEN "returned" ELSE "raised",
                                 ![a].raised = IF ok THEN "" ELSE "LinearApiError"]
  /\ UNCHANGED <<tableVars, pollVars, loopVars, sessionVars, rateVars, stateVars,
                 promptVars, unwrapVars, normalizeVars, connCalls, auxVars>>

\* the caller has its result or exception and may call again
CallEnds(a) ==
  /\ calls[a].pc \in {"returned", "raised"}
  /\ calls' = [calls EXCEPT ![a] = NoCall]
  /\ UNCHANGED <<tableVars, pollVars, loopVars, sessionVars, rateVars, stateVars,
                 promptVars, unwrapVars, normalizeVars, connCalls, auxVars>>

InitClient ==
  /\ calls = [a \in Acquirers |-> NoCall]
  /\ ConnIdle /\ AuxIdle
  /\ PromptIdle
  /\ source = [r \in RowIds |-> _source]
  /\ status = [r \in RowIds |-> "pending"]
  /\ error = [r \in RowIds |-> ""]
  /\ PollIdle /\ LoopIdle /\ SessionsIdle /\ RateIdle /\ StateIdle /\ UnwrapIdle
  /\ NormalizeIdle

NextClient ==
  \/ \E a \in Acquirers, op \in ClientOperations : CallOperation(a, op)
  \/ \E a \in Acquirers : RateAcquired(a)
  \/ \E a \in Acquirers : Post(a)
  \/ \E a \in Acquirers : Unpack(a)
  \/ \E a \in Acquirers : CallEnds(a)

SpecClient == InitClient /\ [][NextClient]_vars

\* C25: every call of an outbound operation has completed exactly one
\* acquire() before its request is sent and by the time it ends, and a call
\* that ends with an exception ends with LinearApiError.
OneAcquireOneErrorKind ==
  \A a \in Acquirers :
    /\ calls[a].acquires <= 1
    /\ calls[a].sent => calls[a].acquires = 1
    /\ calls[a].pc \in {"returned", "raised"} => calls[a].acquires = 1
    /\ calls[a].pc = "raised" => calls[a].raised = "LinearApiError"

\* ======================================================================
\* SpecUnwrap: _unwrap_payload on a payload, then on its own result
\* (backend.py). A dict is a function from keys to tagged values.
\* ======================================================================

\* for _ in range(6)
IterationCap == 6
\* deepest nesting of wrapper dicts in the payloads drawn
MaxNesting == 7

\* a value that is no dict, and one that is
Atom(n) == [d |-> FALSE, v |-> n]
Dict(f) == [d |-> TRUE, v |-> f]

\* the innermost dicts drawn: an event body, the empty dict, a body whose
\* `payload` is no dict
Leaves == {[id |-> Atom(0)], <<>>, [id |-> Atom(0), payload |-> Atom(9)]}
\* what one level of a payload holds: the next level under `payload`, under
\* `data`, or under `data` next to a `payload` dict of its own
Levels == {"payload", "data", "both"}

\* the payload whose levels, outermost first, are w, around the leaf
RECURSIVE Nest(_, _)
Nest(w, leaf) ==
  IF w = <<>> THEN leaf
  ELSE LET inner == Nest(Tail(w), leaf)
           n == Len(w)
       IN CASE Head(w) = "payload" -> [type |-> Atom(n), payload |-> Dict(inner)]
            [] Head(w) = "data" -> [type |-> Atom(n), data |-> Dict(inner)]
            [] OTHER -> [type |-> Atom(n), data |-> Dict(inner),
                         payload |-> Dict([action |-> Atom(n)])]

\* the sequences over S of length at most n
RECURSIVE SeqsUpTo(_, _)
SeqsUpTo(S, n) ==
  IF n = 0 THEN {<<>>}
  ELSE SeqsUpTo(S, n - 1) \cup
       {<<x>> \o w : x \in S, w \in {v \in SeqsUpTo(S, n - 1) : Len(v) = n - 1}}

\* isinstance(out.get(key), dict)
IsDictAt(o, key) == key \in DOMAIN o /\ o[key].d

\* merged = dict(out); merged.pop(key, None); merged.update(out[key])
Merged(o, key) ==
  LET inner == o[key].v
  IN [k \in (DOMAIN o \ {key}) \cup DOMAIN inner |->
        IF k \in DOMAIN inner THEN inner[k] ELSE o[k]]

\* a loop without the cap
MoreIterations_Endless(n) == TRUE

\* for _ in range(6): the loop begins another iteration
MoreIterations(n) == n < IterationCap

\* one iteration of the loop: merge the `payload` wrapper, else the `data`
\* wrapper, else break; the loop also ends when range(6) is exhausted
UnwrapIteration ==
  /\ unwrapPc = "loop"
  /\ IF MoreIterations(iters) /\ (IsDictAt(out, "payload") \/ IsDictAt(out, "data"))
     THEN /\ iters' = iters + 1
          /\ out' = IF IsDictAt(out, "payload") THEN Merged(out, "payload")
                    ELSE Merged(out, "data")
          /\ UNCHANGED <<unwrapPc, firstOut>>
     ELSE /\ unwrapPc' = "returned"
          /\ firstOut' = IF pass = 1 THEN out ELSE firstOut
          /\ UNCHANGED <<out, iters>>
  /\ UNCHANGED <<payloadArg, pass, tableVars, pollVars, loopVars, sessionVars,
                 rateVars, stateVars, promptVars, calls, normalizeVars, connCalls, auxVars>>

\* _unwrap_payload is called on the result of the first call:
\* out = dict(payload or {})
UnwrapAgain ==
  /\ unwrapPc = "returned"
  /\ pass = 1
  /\ pass' = 2
  /\ out' = firstOut
  /\ iters' = 0
  /\ unwrapPc' = "loop"
  /\ UNCHANGED <<payloadArg, firstOut, tableVars, pollVars, loopVars, sessionVars,
                 rateVars, stateVars, promptVars, calls, normalizeVars, connCalls, auxVars>>

InitUnwrap ==
  /\ payloadArg \in {Nest(w, leaf) : w \in SeqsUpTo(Levels, MaxNesting), leaf \in Leaves}
  /\ out = payloadArg
  /\ iters = 0
  /\ unwrapPc = "loop"
  /\ pass = 1
  /\ firstOut = <<>>
  /\ PromptIdle
  /\ calls = [a \in Acquirers |-> NoCall]
  /\ ConnIdle /\ AuxIdle
  /\ source = [r \in RowIds |-> _source]
  /\ status = [r \in RowIds |-> "pending"]
  /\ error = [r \in RowIds |-> ""]
  /\ PollIdle /\ LoopIdle /\ SessionsIdle /\ RateIdle /\ StateIdle
  /\ NormalizeIdle

NextUnwrap ==
  \/ UnwrapIteration
  \/ UnwrapAgain

SpecUnwrap == InitUnwrap /\ [][NextUnwrap]_vars

\* depth of the nesting of dicts under the keys payload and data
RECURSIVE Nesting(_)
Nesting(o) ==
  LET p == IF IsDictAt(o, "payload") THEN 1 + Nesting(o["payload"].v) ELSE 0
      q == IF IsDictAt(o, "data") THEN 1 + Nesting(o["data"].v) ELSE 0
  IN IF p >= q THEN p ELSE q

\* number of dicts nested under the keys payload and data
RECURSIVE Wrappers(_)
Wrappers(o) ==
  (IF IsDictAt(o, "payload") THEN 1 + Wrappers(o["payload"].v) ELSE 0)
  + (IF IsDictAt(o, "data") THEN 1 + Wrappers(o["data"].v) ELSE 0)

\* C26 as stated: the second call returns what the first returned whenever the
\* nesting depth of the payload's wrappers is at most the cap of 6; no call
\* begins more than 6 iterations; the payload passed in is not modified.
UnwrapIdempotentByDepth ==
  /\ [](/\ iters <= IterationCap
        /\ pass = 2 /\ unwrapPc = "returned" /\ Nesting(payloadArg) <= IterationCap
             => out = firstOut)
  /\ [][payloadArg' = payloadArg]_vars

\* C26, amended: the second call returns what the first returned whenever the
\* payload holds at most 6 wrapper dicts under payload and data, counted over
\* all levels (then the first call merges them all and its result holds no
\* dict under either key); no call begins more than 6 iterations, whatever the
\* payload; the payload passed in is not modified.
UnwrapIdempotent ==
  /\ [](/\ iters <= IterationCap
        /\ unwrapPc = "returned" /\ Wrappers(payloadArg) <= IterationCap
             => ~IsDictAt(firstOut, "payload") /\ ~IsDictAt(firstOut, "data")
        /\ pass = 2 /\ unwrapPc = "returned" /\ Wrappers(payloadArg) <= IterationCap
             => out = firstOut /\ iters = 0)
  /\ [][payloadArg' = payloadArg]_vars

\* both calls have returned on a payload of six wrappers, alternately under
\* payload and data; the first call used all six iterations
UnwrapIdempotentWitness ==
  /\ pass = 2 /\ unwrapPc = "returned"
  /\ Wrappers(payloadArg) = IterationCap /\ Nesting(payloadArg) = IterationCap
  /\ IsDictAt(payloadArg, "payload") /\ IsDictAt(payloadArg["payload"].v, "data")
  /\ out = firstOut /\ out # payloadArg
  /\ "id" \in DOMAIN out /\ DOMAIN out = {"id", "type"}

\* ======================================================================
\* SpecNormalize: _normalize_event_type on one (event_type, action) pair
\* (backend.py). Texts are tuples of characters.
\* ======================================================================

UpperCase ==
  <<"A", "B", "C", "D", "E", "F", "G", "H", "I", "J", "K", "L", "M",
    "N", "O", "P", "Q", "R", "S", "T", "U", "V", "W", "X", "Y", "Z">>
LowerCase ==
  <<"a", "b", "c", "d", "e", "f", "g", "h", "i", "j", "k", "l", "m",
    "n", "o", "p", "q", "r", "s", "t", "u", "v", "w", "x", "y", "z">>

\* str.lower() on one character
LowerChar(c) ==
  IF \E i \in DOMAIN UpperCase : UpperCase[i] = c
  THEN LowerCase[CHOOSE i \in DOMAIN UpperCase : UpperCase[i] = c]
  ELSE c

\* str.lower()
lower(t) == [i \in DOMAIN t |-> LowerChar(t[i])]

\* str.startswith(prefix) and str.removeprefix(prefix)
startswith(t, prefix) ==
  Len(t) >= Len(prefix) /\ SubSeq(t, 1, Len(prefix)) = prefix
removeprefix(t, prefix) ==
  IF startswith(t, prefix) THEN SubSeq(t, Len(prefix) + 1, Len(t)) ELSE t

AgentSessionEvent == <<"A", "g", "e", "n", "t", "S", "e", "s", "s",
  "i", "o", "n", "E", "v", "e", "n", "t">>
agentsessionevent == <<"a", "g", "e", "n", "t", "s", "e", "s", "s",
  "i", "o", "n", "e", "v", "e", "n", "t">>
agentsessionevent_dot == agentsessionevent \o <<".">>
agent_session_dot == <<"a", "g", "e", "n", "t", "_", "s", "e", "s", "s", "i", "o", "n", ".">>

\* the actions of an agent session event
SessionActions ==
  {<<"c", "r", "e", "a", "t", "e", "d">>,
   <<"p", "r", "o", "m", "p", "t", "e", "d">>,
   <<"s", "t", "o", "p", "p", "e", "d">>,
   <<"c", "a", "n", "c", "e", "l", "l", "e", "d">>,
   <<"c", "a", "n", "c", "e", "l", "e", "d">>}

\* str.upper() on one character and on a text, and str.capitalize() on a
\* lower-case text: the spellings the inputs are drawn in
UpperChar(c) ==
  IF \E i \in DOMAIN LowerCase : LowerCase[i] = c
  THEN UpperCase[CHOOSE i \in DOMAIN LowerCase : LowerCase[i] = c]
  ELSE c
upper(t) == [i \in DOMAIN t |-> UpperChar(t[i])]
capitalize(t) == [i \in DOMAIN t |-> IF i = 1 THEN UpperChar(t[i]) ELSE t[i]]

\* the event types drawn: None, "", the native type in three spellings, the
\* gateway type of every action in three spellings, the bare prefix, and types
\* of other events
OtherTypes ==
  {<<"I", "s", "s", "u", "e">>, <<"i", "s", "s", "u", "e">>,
   <<"C", "o", "m", "m", "e", "n", "t", ".", "C", "r", "e", "a", "t", "e">>,
   AgentSessionEvent \o <<"s">>, SubSeq(agentsessionevent, 1, 12)}
EventTypeTexts ==
  {None, <<>>, AgentSessionEvent, agentsessionevent, upper(agentsessionevent),
   agentsessionevent_dot}
  \cup {agentsessionevent_dot \o a : a \in SessionActions}
  \cup {AgentSessionEvent \o <<".">> \o capitalize(a) : a \in SessionActions}
  \cup {upper(agentsessionevent_dot \o a) : a \in SessionActions}
  \cup OtherTypes
\* the actions drawn: None, "", every action in three spellings
ActionTexts ==
  {None, <<>>} \cup SessionActions \cup {capitalize(a) : a \in SessionActions}
  \cup {upper(a) : a \in SessionActions}

\* the native test by exact spelling only
IsNative_ExactCase(raw) == raw = AgentSessionEvent

\* raw == "AgentSessionEvent" or raw_lower == "agentsessionevent"
IsNative(raw) == raw = AgentSessionEvent \/ lower(raw) = agentsessionevent

\* _normalize_event_type
_normalize_event_type(et, act) ==
  LET raw == IF et = None THEN <<>> ELSE et
      raw_lower == lower(raw)
      action_lower == IF act = None THEN None ELSE lower(act)
  IN IF IsNative(raw)
     THEN IF action_lower # None /\ action_lower # <<>>
          THEN agent_session_dot \o action_lower
          ELSE <<>>
     ELSE IF startswith(raw_lower, agentsessionevent_dot)
     THEN agent_session_dot \o removeprefix(raw_lower, agentsessionevent_dot)
     ELSE raw_lower

\* the call returns
Normalize ==
  /\ normalizePc = "call"
  /\ normalizePc' = "returned"
  /\ normalizedType' = _normalize_event_type(event_type, action)
  /\ UNCHANGED <<event_type, action, tableVars, pollVars, loopVars, sessionVars,
                 rateVars, stateVars, promptVars, calls, unwrapVars, connCalls, auxVars>>

InitNormalize ==
  /\ event_type \in EventTypeTexts
  /\ action \in ActionTexts
  /\ normalizePc = "call"
  /\ normalizedType = <<>>
  /\ PromptIdle
  /\ calls = [a \in Acquirers |-> NoCall]
  /\ ConnIdle /\ AuxIdle
  /\ UnwrapIdle
  /\ source = [r \in RowIds |-> _source]
  /\ status = [r \in RowIds |-> "pending"]
  /\ error = [r \in RowIds |-> ""]
  /\ PollIdle /\ LoopIdle /\ SessionsIdle /\ RateIdle /\ StateIdle

NextNormalize == Normalize

SpecNormalize == InitNormalize /\ [][NextNormalize]_vars

\* C27: once the call has returned: for every action a of the five, in any
\* spelling, the native type (in any spelling) with action a gives
\* "agent_session." + a in lower case, and so does the gateway type
\* "agentsessionevent." + a (in any spelling) with no action; a type that is
\* neither the native type nor begins with "agentsessionevent." comes back
\* lower-cased, whatever the action.
NormalizeCanonical ==
  normalizePc = "returned" =>
    /\ \A a \in SessionActions :
         /\ event_type # None /\ lower(event_type) = agentsessionevent
            /\ action # None /\ lower(action) = a
            => normalizedType = agent_session_dot \o a
         /\ event_type # None /\ lower(event_type) = agentsessionevent_dot \o a
            /\ action = None
            => normalizedType = agent_session_dot \o a
    /\ /\ event_type # None
       /\ lower(event_type) # agentsessionevent
       /\ ~startswith(lower(event_type), agentsessionevent_dot)
       => normalizedType = lower(event_type)

\* the call has returned "agent_session.created" for the native type spelled in
\* upper case with action "Created"
NormalizeCanonicalWitness ==
  /\ normalizePc = "returned"
  /\ event_type = upper(agentsessionevent)
  /\ action = capitalize(<<"c", "r", "e", "a", "t", "e", "d">>)
  /\ normalizedType = agent_session_dot \o <<"c", "r", "e", "a", "t", "e", "d">>

\* C28: the watcher of a run starts with the run and watches while the run is
\* in progress. It stops before the run ends only in the step in which it finds
\* stop_requested set and some task registered; that step sets the flag of
\* every registered task of the session. It does not start again within the
\* run, so it cancels once per run; while it watches with the flag set and a
\* task registered, its cancelling step can be taken.
WatcherCancelsOnce ==
  /\ [](\A e \in RowIds :
          /\ watching[e] => pc[e] = "running"
          /\ pc[e] = "running" /\ ~watching[e] =>
               /\ e \in running_tasks[sid[e]] /\ cancel_requested[e]
               /\ stop_requested[sid[e]]
          /\ /\ loopState = "running" /\ watching[e]
             /\ stop_requested[sid[e]] /\ running_tasks[sid[e]] # {}
             => ENABLED (WatchStop(e) /\ ~watching'[e]))
  /\ [][\A e \in RowIds :
          /\ WatcherCancelStep(e) =>
               /\ stop_requested[sid[e]] /\ running_tasks[sid[e]] # {}
               /\ \A r \in running_tasks[sid[e]] : cancel_requested'[r]
               /\ running_tasks' = running_tasks
          /\ ~watching[e] /\ watching'[e] => pc[e] = "acking" /\ pc'[e] = "running"
          /\ watching[e] /\ ~watching'[e] =>
               WatcherCancelStep(e) \/ pc'[e] # "running"]_vars

\* a stop event of the session has been handled; the watcher has set the flag
\* of the run's registered task and stopped watching; the run is in progress
WatcherCancelsOnceWitness ==
  \E e, f \in RowIds :
    /\ kind[f] \in _STOP_SESSION_EVENTS /\ sid[f] = sid[e]
    /\ pc[f] \in {"stop_sending", "ok", "end"} /\ stopNotices[f] = 1
    /\ pc[e] = "running" /\ ~watching[e]
    /\ e \in running_tasks[sid[e]] /\ cancel_requested[e]

\* ======================================================================
\* SpecState: the loop and the handlers of Spec with payloads that may name a
\* configured project and engines that may report a thread, which write the
\* session's context and resume token
\* ======================================================================

InitState ==
  /\ InitEvents
  /\ rowProject \in [RowIds -> {NoId, "proj_1"}]
  /\ rowThread \in [RowIds -> {NoToken} \cup ThreadTokens]
  \* the payload of an event that is not created or prompted is not read for
  \* a project, and its handler starts no engine
  /\ \A r \in RowIds : kind[r] \notin RunEvents \/ sid[r] = NoSession
                          => rowProject[r] = NoId /\ rowThread[r] = NoToken

NextState ==
  \/ Next
  \/ \E e \in RowIds : OnThreadKnown(e)

SpecState == InitState /\ [][NextState]_vars

\* C29: every step that changes a session's resume token or context is a step
\* of the handler that owns the session's run lock, taken inside the lock's
\* scope; no other handler moves in it, except a waiting one that is handed
\* the lock as the owner leaves. The steps of a stop handler, which
\* holds no lock, change only stop_requested (to true) and cancellation flags;
\* stop_requested is set back to false only by the lock's owner.
WritesUnderRunLock ==
  [][/\ \A s \in Sessions :
          resume'[s] # resume[s] \/ context'[s] # context[s] =>
            /\ lockOwner[s] # NoOne
            /\ sid[lockOwner[s]] = s
            /\ pc[lockOwner[s]] \in InRun
            /\ \A f \in RowIds \ {lockOwner[s]} :
                 pc'[f] = pc[f] \/ (pc[f] = "waiting" /\ pc'[f] = "locked")
     /\ \A e \in RowIds :
          StopStep(e) =>
            /\ resume' = resume /\ context' = context
            /\ \A s \in Sessions : stop_requested[s] => stop_requested'[s]
            /\ lockOwner' = lockOwner /\ running_tasks' = running_tasks
     /\ \A s \in Sessions :
          stop_requested[s] /\ ~stop_requested'[s] =>
            lockOwner[s] # NoOne /\ pc[lockOwner[s]] = "locked"]_vars

\* a session's context and resume token have both been written by a handler
\* that owns the run lock, while a stop event of the session has set
\* stop_requested without the lock
WritesUnderRunLockWitness ==
  \E e, f \in RowIds :
    /\ pc[e] = "running" /\ lockOwner[sid[e]] = e
    /\ context[sid[e]] = "alpha" /\ resume[sid[e]] = "thread_1"
    /\ kind[f] \in _STOP_SESSION_EVENTS /\ sid[f] = sid[e] /\ pc[f] \in {"ok", "end"}
    /\ stop_requested[sid[e]]

\* ======================================================================
\* SpecConn: poll(), mark_done() and mark_failed() of one GatewayPoller,
\* called by concurrent tasks, step by step on its storage connection
\* ======================================================================

\* the operations tasks call on the poller
ConnOperations == {"poll", "mark_done", "mark_failed"}
\* the ids tasks pass to mark_done / mark_failed: the rows and an unknown id
ConnIds == RowIds \cup {UnknownId}

\* a call that enters its `async with` block whoever holds the lock
LockFree_NoLock(c) == TRUE

\* `async with self._lock` can be entered: no task holds the poller's lock
LockFree(c) == pollerLock[pollerOf[c]] = NoOne

\* a task calls poll(), mark_done or mark_failed and reaches
\* `async with self._lock`
CallPoller(c, op) ==
  /\ connCalls[c].pc \in {"idle", "returned"}
  /\ connCalls' = [connCalls EXCEPT ![c] =
                     [NoConnCall EXCEPT !.op = op, !.pc = "waiting"]]
  /\ UNCHANGED <<tableVars, pollVars, loopVars, sessionVars, rateVars, stateVars,
                 promptVars, calls, unwrapVars, normalizeVars, auxVars>>

\* the event_id parameter of the statement of operation op (_CLAIM_SQL has none)
StatementIds(op) == IF op = "poll" THEN {NoConnCall.id} ELSE ConnIds

\* the error parameter of the statement of operation op (only _FAILED_SQL has one)
StatementTexts(op) == IF op = "mark_failed" THEN ErrorTexts ELSE {NoConnCall.text}

\* the rows the statement of call c locks until its transaction ends
StatementRows(c, id) ==
  IF connCalls[c].op = "poll" THEN ClaimSelect(c) ELSE {id} \cap Rows

\* the task takes self._lock and cur.execute() issues its statement with the
\* parameters of the call (event_id, error) on the connection: the
\* transaction is open, nothing is committed yet
Execute(c, id, text) ==
  /\ connCalls[c].pc = "waiting"
  /\ LockFree(c)
  /\ pollerLock' = [pollerLock EXCEPT ![pollerOf[c]] = c]
  /\ rowLock' = [r \in Rows |-> IF r \in StatementRows(c, id) THEN c ELSE rowLock[r]]
  /\ claimed' = [claimed EXCEPT ![c] =
                   IF connCalls[c].op = "poll" THEN ClaimSelect(c) ELSE {}]
  /\ connCalls' = [connCalls EXCEPT ![c].pc = "executed", ![c].id = id,
                                     ![c].text = text]
  /\ UNCHANGED <<tableVars, pollerOf, pollPc, lastBatch, returned, loopVars,
                 sessionVars, rateVars, stateVars, promptVars, calls, unwrapVars,
                 normalizeVars, auxVars>>

\* conn.commit() returns: the statement's changes are in the table, the row
\* locks are dropped, the `async with` block ends and the call returns
Commit(c) ==
  /\ connCalls[c].pc = "executed"
  /\ status' =
       CASE connCalls[c].op = "poll" ->
              [r \in Rows |-> IF r \in claimed[c] THEN "processing" ELSE status[r]]
         [] connCalls[c].op = "mark_done" -> DoneSql(status, connCalls[c].id)
         [] OTHER -> FailedSql(status, connCalls[c].id)
  /\ error' = IF connCalls[c].op = "mark_failed"
              THEN FailedSqlError(error, connCalls[c].id, connCalls[c].text)
              ELSE error
  /\ returned' = [r \in Rows |-> IF r \in claimed[c] THEN returned[r] + 1
                                 ELSE returned[r]]
  /\ IF connCalls[c].op = "poll"
     THEN lastBatch' \in ReturningOrders(claimed[c])
     ELSE lastBatch' = lastBatch
  /\ claimed' = [claimed EXCEPT ![c] = {}]
  /\ rowLock' = [r \in Rows |-> IF rowLock[r] = c THEN NoOne ELSE rowLock[r]]
  /\ pollerLock' = [pollerLock EXCEPT ![pollerOf[c]] = NoOne]
  /\ connCalls' = [connCalls EXCEPT ![c] =
                     [NoConnCall EXCEPT !.pc = "returned",
                                        !.commits = connCalls[c].commits + 1]]
  /\ UNCHANGED <<source, pollerOf, pollPc, loopVars, sessionVars, rateVars,
                 stateVars, promptVars, calls, unwrapVars, normalizeVars, auxVars>>

\* cur.execute() or conn.commit() raises: the transaction is aborted, the
\* exception leaves the `async with` block, which releases the lock, and
\* reaches the caller
StorageError(c) ==
  /\ connCalls[c].pc = "executed"
  /\ claimed' = [claimed EXCEPT ![c] = {}]
  /\ rowLock' = [r \in Rows |-> IF rowLock[r] = c THEN NoOne ELSE rowLock[r]]
  /\ pollerLock' = [pollerLock EXCEPT ![pollerOf[c]] = NoOne]
  /\ connCalls' = [connCalls EXCEPT ![c] =
                     [NoConnCall EXCEPT !.pc = "returned",
                                        !.commits = connCalls[c].commits,
                                        !.raised = TRUE]]
  /\ UNCHANGED <<tableVars, pollerOf, pollPc, lastBatch, returned, loopVars,
                 sessionVars, rateVars, stateVars, promptVars, calls, unwrapVars,
                 normalizeVars, auxVars>>

\* one GatewayPoller, one connection, a table of pending rows of its source
InitConn ==
  /\ source = [r \in RowIds |-> _source]
  /\ status = [r \in RowIds |-> "pending"]
  /\ error = [r \in RowIds |-> ""]
  /\ PollIdle /\ LoopIdle /\ SessionsIdle /\ RateIdle /\ StateIdle
  /\ PromptIdle /\ UnwrapIdle /\ NormalizeIdle
  /\ calls = [a \in Acquirers |-> NoCall]
  /\ ConnIdle /\ AuxIdle

NextConn ==
  \/ \E c \in Callers, op \in ConnOperations : CallPoller(c, op)
  \/ \E c \in Callers :
       \E id \in StatementIds(connCalls[c].op), text \in StatementTexts(connCalls[c].op) :
         Execute(c, id, text)
  \/ \E c \in Callers : Commit(c)
  \/ \E c \in Callers : StorageError(c)

SpecConn == InitConn /\ [][NextConn]_vars

\* C30: within one poller instance at most one of the poll, mark_done and
\* mark_failed calls is between issuing its statement and finishing its
\* commit at any instant, and that call holds the poller's lock; a call that
\* has returned without raising has performed exactly one commit, and a call
\* that raised has performed none.
ConnectionExclusive ==
  /\ \A c, d \in Callers :
       (c # d /\ pollerOf[c] = pollerOf[d]) =>
         ~(connCalls[c].pc = "executed" /\ connCalls[d].pc = "executed")
  /\ \A c \in Callers :
       connCalls[c].pc = "executed" =>
         pollerLock[pollerOf[c]] = c /\ connCalls[c].commits = 0
  /\ \A c \in Callers :
       connCalls[c].pc = "returned" =>
         connCalls[c].commits = (IF connCalls[c].raised THEN 0 ELSE 1)

\* a mark_done statement is in flight on the connection while a poll() call of
\* another task waits for the lock, a third task's call has returned after its
\* one commit and a mark_failed has committed its error text
ConnectionExclusiveWitness ==
  \E c, d, e \in Callers :
    /\ connCalls[c].op = "mark_done" /\ connCalls[c].pc = "executed"
    /\ connCalls[d].op = "poll" /\ connCalls[d].pc = "waiting"
    /\ connCalls[e].pc = "returned"
    /\ ~connCalls[e].raised /\ connCalls[e].commits = 1
    /\ \E r \in Rows : error[r] \in ErrorTexts

\* ======================================================================
\* SpecResume: the runs of each session one after another, with the resume
\* token each message resolves and the token each run reports
\* ======================================================================

\* the resume tokens messages carry and runners report
ResumeTokens == ThreadTokens \cup {"thread_2"}

\* format_resume of the wrapped runner: a resume line naming the token
format_resume_Runner(token) == <<"r", "e", "s", "u", "m", "e", " ", token>>

\* _ResumeLineProxy.format_resume: `return ""`
format_resume(token) == <<>>

\* `resume = resolved.resume_token or state.resume`
ResumeFor(resume_token, state_resume) ==
  IF resume_token # NoToken THEN resume_token ELSE state_resume

\* _run_engine_for_session up to handle_message: the message resolves
\* resume_token (NoToken when it carries none) and the run is given
\* `resolved.resume_token or state.resume`
RunStarts(s, resume_token) ==
  /\ engineRun[s].pc = "idle"
  /\ engineRun' = [engineRun EXCEPT ![s] =
       [pc |-> "running",
        resolved |-> resume_token,
        passed |-> ResumeFor(resume_token, resume[s]),
        reported |-> NoToken,
        previous |-> IF engineRun[s].reported # NoToken THEN engineRun[s].reported
                     ELSE engineRun[s].previous,
        rendered |-> {}]]
  /\ UNCHANGED <<tableVars, pollVars, loopVars, sessionVars, rateVars, stateVars,
                 promptVars, calls, unwrapVars, normalizeVars, connCalls, extraction, conversion, leafLocks>>

\* on_thread_known(resume_token, _done): `state.resume = resume_token`
on_thread_known(s, resume_token) ==
  /\ engineRun[s].pc = "running"
  /\ resume' = [resume EXCEPT ![s] = resume_token]
  /\ engineRun' = [engineRun EXCEPT ![s].reported = resume_token]
  /\ UNCHANGED <<tableVars, pollVars, loopVars, sessionVars, rateVars, context,
                 promptVars, calls, unwrapVars, normalizeVars, connCalls, extraction, conversion, leafLocks>>

\* the token of the run's thread as far as the run knows it
KnownToken(s) ==
  IF engineRun[s].reported # NoToken THEN engineRun[s].reported
  ELSE engineRun[s].passed

\* handle_message renders the resume line of a progress or final message
\* through the runner it was given, the _ResumeLineProxy
RenderResume(s) ==
  /\ engineRun[s].pc = "running"
  /\ KnownToken(s) # NoToken
  /\ engineRun' = [engineRun EXCEPT ![s].rendered = @ \cup {format_resume(KnownToken(s))}]
  /\ UNCHANGED <<tableVars, pollVars, loopVars, sessionVars, rateVars, stateVars,
                 promptVars, calls, unwrapVars, normalizeVars, connCalls, extraction, conversion, leafLocks>>

\* handle_message returns, the task group ends
RunReturns(s) ==
  /\ engineRun[s].pc = "running"
  /\ engineRun' = [engineRun EXCEPT ![s].pc = "idle"]
  /\ UNCHANGED <<tableVars, pollVars, loopVars, sessionVars, rateVars, stateVars,
                 promptVars, calls, unwrapVars, normalizeVars, connCalls, extraction, conversion, leafLocks>>

InitResume ==
  /\ source = [r \in RowIds |-> _source]
  /\ status = [r \in RowIds |-> "pending"]
  /\ error = [r \in RowIds |-> ""]
  /\ PollIdle /\ LoopIdle /\ SessionsIdle /\ RateIdle /\ StateIdle
  /\ FnIdle

NextResume ==
  \/ \E s \in Sessions, t \in ResumeTokens \cup {NoToken} : RunStarts(s, t)
  \/ \E s \in Sessions, t \in ResumeTokens : on_thread_known(s, t)
  \/ \E s \in Sessions : RenderResume(s)
  \/ \E s \in Sessions : RunReturns(s)

SpecResume == InitResume /\ [][NextResume]_vars

\* C31: every resume line the runner adapter renders is the empty text; the
\* token a run reports is the session state's resume from then on; and the
\* token passed to a run is the one its message resolved, or, when the message
\* resolved none, the token last reported by the session's earlier runs.
ResumeKeptNotShown ==
  \A s \in Sessions :
    /\ engineRun[s].rendered \subseteq {<<>>}
    /\ engineRun[s].reported # NoToken => resume[s] = engineRun[s].reported
    /\ engineRun[s].passed =
         (IF engineRun[s].resolved # NoToken THEN engineRun[s].resolved
          ELSE engineRun[s].previous)

\* a run whose message resolved no token was passed the token an earlier run
\* of the session reported and has rendered a resume line for the different
\* token it reported itself
ResumeKeptNotShownWitness ==
  \E s \in Sessions :
    /\ engineRun[s].pc = "running"
    /\ engineRun[s].resolved = NoToken
    /\ engineRun[s].passed = "thread_1" /\ engineRun[s].previous = "thread_1"
    /\ engineRun[s].reported = "thread_2"
    /\ engineRun[s].rendered # {}

\* ======================================================================
\* SpecExtract: a field extractor of backend.py applied to an unwrapped
\* payload. A dict is a function from keys to tagged values (Atom, Dict).
\* ======================================================================

\* payload.get(key): the value under the key, None for a missing key
Get(o, key) == IF key \in DOMAIN o THEN o[key] ELSE Atom(None)

\* bool(x) of a value: a non-empty dict, a non-empty text
Truthy(x) == IF x.d THEN DOMAIN x.v # {} ELSE x.v \notin {None, <<>>}

\* `a or b` on values
OrValue(a, b) == IF Truthy(a) THEN a ELSE b

\* isinstance(x, str)
IsStr(x) == ~x.d /\ x.v # None

\* _extract_session_id
_extract_session_id(p) ==
  LET agent_session == OrValue(Get(p, "agentSession"), Get(p, "agent_session"))
      nested == IF agent_session.d THEN Get(agent_session.v, "id") ELSE Atom(None)
      flat == OrValue(Get(p, "agentSessionId"), Get(p, "agent_session_id"))
      own == Get(p, "id")
  IN CASE IsStr(nested) /\ nested.v # <<>> -> nested.v
       [] IsStr(flat) /\ flat.v # <<>> -> flat.v
       [] IsStr(own) /\ own.v # <<>> /\ "issue" \in DOMAIN p -> own.v
       [] OTHER -> None

\* _extract_agent_activity_id
_extract_agent_activity_id(p) ==
  LET agent_activity == OrValue(Get(p, "agentActivity"), Get(p, "agent_activity"))
      nested == IF agent_activity.d
                THEN OrValue(OrValue(Get(agent_activity.v, "id"),
                                     Get(agent_activity.v, "agentActivityId")),
                             Get(agent_activity.v, "agent_activity_id"))
                ELSE Atom(None)
      flat == OrValue(Get(p, "agentActivityId"), Get(p, "agent_activity_id"))
  IN CASE IsStr(nested) /\ strip(nested.v) # <<>> -> strip(nested.v)
       [] IsStr(flat) /\ strip(flat.v) # <<>> -> strip(flat.v)
       [] OTHER -> None

\* the extractors applied
Extractors == {"_extract_session_id", "_extract_agent_activity_id"}

\* what a key of a drawn payload holds: nothing (None: the key is missing), a
\* whitespace-only text, one of two ids
FieldValues == {None, <<" ">>, <<"a">>, <<"b">>}

\* the dict with key k holding x, the empty dict when the key is left out
Field(k, present, x) == IF present THEN k :> x ELSE <<>>

\* the dict of the texts c gives its keys, without the keys it leaves out
TextDict(c) == [k \in {k \in DOMAIN c : c[k] # None} |-> Atom(c[k])]

\* the payloads drawn for _extract_session_id
SessionIdPayloads ==
  {Field("agentSession", n # None, Dict(TextDict([id |-> n])))
     @@ Field("agent_session", m # None, Dict(TextDict([id |-> m])))
     @@ Field("agentSessionId", f # None, Atom(f))
     @@ Field("agent_session_id", g # None, Atom(g))
     @@ Field("id", o # None, Atom(o))
     @@ Field("issue", i, Dict(<<>>)) :
     n \in FieldValues, m \in FieldValues, f \in FieldValues, g \in FieldValues,
     o \in FieldValues, i \in BOOLEAN}

\* the dicts drawn for agentActivity / agent_activity
ActivityDicts ==
  {TextDict(c) : c \in [{"id", "agentActivityId", "agent_activity_id"} -> FieldValues]}

\* the payloads drawn for _extract_agent_activity_id
ActivityIdPayloads ==
  {Field("agentActivity", DOMAIN a # {}, Dict(a))
     @@ Field("agent_activity", DOMAIN b # {}, Dict(b))
     @@ Field("agentActivityId", f # None, Atom(f))
     @@ Field("agent_activity_id", g # None, Atom(g)) :
     a \in ActivityDicts, b \in ActivityDicts, f \in FieldValues, g \in FieldValues}

\* the extractor is called and returns
Extract ==
  /\ extraction.pc = "call"
  /\ extraction' = [extraction EXCEPT
       !.pc = "returned",
       !.result = IF extraction.fn = "_extract_session_id"
                  THEN _extract_session_id(extraction.payload)
                  ELSE _extract_agent_activity_id(extraction.payload)]
  /\ UNCHANGED <<tableVars, pollVars, loopVars, sessionVars, rateVars, stateVars,
                 promptVars, calls, unwrapVars, normalizeVars, connCalls, engineRun, conversion, leafLocks>>

InitExtract ==
  /\ source = [r \in RowIds |-> _source]
  /\ status = [r \in RowIds |-> "pending"]
  /\ error = [r \in RowIds |-> ""]
  /\ PollIdle /\ LoopIdle /\ SessionsIdle /\ RateIdle /\ StateIdle
  /\ PromptIdle /\ UnwrapIdle /\ NormalizeIdle /\ ConnIdle
  /\ calls = [a \in Acquirers |-> NoCall]
  /\ engineRun = [s \in Sessions |-> NoEngineRun]
  /\ conversion = NoConversion
  /\ leafLocks = NoLeafLocks
  /\ \E fn \in Extractors :
       \E p \in (IF fn = "_extract_session_id" THEN SessionIdPayloads
                 ELSE ActivityIdPayloads) :
         extraction = [fn |-> fn, payload |-> p, pc |-> "call", result |-> None]

NextExtract == Extract

SpecExtract == InitExtract /\ [][NextExtract]_vars

\* the values of the shape variants of an extractor on payload p, in the
\* order the extractor reads them: camelCase before snake_case, nested object
\* before flat key
Variants(fn, p) ==
  LET In(o, key) == IF Get(p, o).d THEN Get(Get(p, o).v, key) ELSE Atom(None)
  IN IF fn = "_extract_session_id"
     THEN <<In("agentSession", "id"), In("agent_session", "id"),
            Get(p, "agentSessionId"), Get(p, "agent_session_id"),
            IF "issue" \in DOMAIN p THEN Get(p, "id") ELSE Atom(None)>>
     ELSE <<In("agentActivity", "id"), In("agentActivity", "agentActivityId"),
            In("agentActivity", "agent_activity_id"),
            In("agent_activity", "id"), In("agent_activity", "agentActivityId"),
            In("agent_activity", "agent_activity_id"),
            Get(p, "agentActivityId"), Get(p, "agent_activity_id")>>

\* the text a variant's value yields: the id itself for the session id, the
\* stripped id for the activity id; <<>> when it yields none
Yield(fn, x) ==
  IF ~IsStr(x) THEN <<>>
  ELSE IF fn = "_extract_session_id" THEN x.v ELSE strip(x.v)

\* the first non-empty yield of the variants, None when every one is empty
FirstNonEmpty(fn, p) ==
  LET v == Variants(fn, p)
      hits == {i \in DOMAIN v : Yield(fn, v[i]) # <<>>}
  IN IF hits = {} THEN None
     ELSE Yield(fn, v[CHOOSE i \in hits : \A j \in hits : i <= j])

\* C32 as stated: an extractor returns the first shape variant that yields a
\* non-empty value, and nothing only when every variant is empty.
FirstNonEmptyVariant ==
  extraction.pc = "returned" /\ extraction.fn # "" =>
    extraction.result = FirstNonEmpty(extraction.fn, extraction.payload)

\* ----------------------------------------------------------------------
\* the session snapshot the tests expect the handler to fall back to
\* ----------------------------------------------------------------------

\* body of the latest prompt activity of the snapshot, and its issue title
SnapshotBody == <<"s", "n", "a", "p", "s", "h", "o", "t", " ", "p", "r", "o", "m", "p", "t">>
SnapshotTitle == <<"S", "n", "a", "p", "s", "h", "o", "t", " ", "i", "s", "s", "u", "e">>

\* C33 as stated: a handler whose event has no locally resolvable prompt text
\* (and no activity id) does not end on the missing prompt; its engine run
\* gets the snapshot's latest prompt body for a prompted event and the
\* snapshot's issue title, a blank line and that body for a created one.
SnapshotPromptRun ==
  LocalPrompt(normalized, payload, get_issue_result) = None =>
    /\ promptPc # "raised"
    /\ promptPc = "running" =>
         run_text = IF normalized = "agent_session.prompted" THEN SnapshotBody
                    ELSE SnapshotTitle \o <<"\n", "\n">> \o SnapshotBody

\* ======================================================================
\* SpecDecode: the loop of poll() that builds a GatewayEvent from each row
\* fetchall() returned (poller.py)
\* ======================================================================

\* the documents stored in the payload column
JsonDicts == {TextDict(c) : c \in [{"type", "action"} -> {None, <<"a">>, <<"b">>}]}

\* the members of dict d under the keys ks, JSON-encoded one after another
RECURSIVE JsonMembers(_, _, _)
JsonMembers(d, ks, first) ==
  IF ks = <<>> THEN <<>>
  ELSE IF Head(ks) \notin DOMAIN d THEN JsonMembers(d, Tail(ks), first)
  ELSE (IF first THEN <<>> ELSE <<",", " ">>)
       \o <<"\"", Head(ks), "\"", ":", " ", "\"">> \o d[Head(ks)].v \o <<"\"">>
       \o JsonMembers(d, Tail(ks), FALSE)

\* json.dumps of a document
json_dumps(d) == <<"{">> \o JsonMembers(d, <<"type", "action">>, TRUE) \o <<"}">>

\* json.loads of a text: the document it encodes, None for any other text
json_loads(text) ==
  IF \E d \in JsonDicts : json_dumps(d) = text
  THEN Dict(CHOOSE d \in JsonDicts : json_dumps(d) = text)
  ELSE Atom(None)

\* what a fetched row holds under "payload": a dict (jsonb adapted by the
\* driver), the JSON text of one, a text that is no JSON, or NULL
PayloadColumn ==
  {Dict(d) : d \in JsonDicts}
    \cup {Atom(json_dumps(d)) : d \in JsonDicts}
    \cup {Atom(<<"h", "i">>), Atom(None)}

\* what a fetched row holds under "external_id"
ExternalIds == {None, <<>>, <<"x", "1">>}

\* the rows fetchall() can return: dict rows, and a row that is no dict
FetchedRows ==
  {[is_dict |-> TRUE, payload |-> p, external_id |-> x] :
     p \in PayloadColumn, x \in ExternalIds}
    \cup {[is_dict |-> FALSE, payload |-> Atom(None), external_id |-> None]}

\* `payload = row.get("payload"); if not isinstance(payload, dict): payload = {}`
EventPayload(p) == IF p.d THEN p.v ELSE <<>>

\* `str(row["external_id"]) if row.get("external_id") else None`
EventExternalId(x) == IF x # None /\ x # <<>> THEN x ELSE None

\* one pass of `for row in rows or []`: a row that is no dict is skipped, any
\* other row appends a GatewayEvent
BuildEvent ==
  /\ conversion.pc = "row"
  /\ conversion' = [conversion EXCEPT
       !.pc = "returned",
       !.events = IF ~conversion.row.is_dict THEN <<>>
                  ELSE <<[payload |-> EventPayload(conversion.row.payload),
                          external_id |-> EventExternalId(conversion.row.external_id)]>>]
  /\ UNCHANGED <<tableVars, pollVars, loopVars, sessionVars, rateVars, stateVars,
                 promptVars, calls, unwrapVars, normalizeVars, connCalls, engineRun,
                 extraction, leafLocks>>

InitDecode ==
  /\ source = [r \in RowIds |-> _source]
  /\ status = [r \in RowIds |-> "pending"]
  /\ error = [r \in RowIds |-> ""]
  /\ PollIdle /\ LoopIdle /\ SessionsIdle /\ RateIdle /\ StateIdle
  /\ PromptIdle /\ UnwrapIdle /\ NormalizeIdle /\ ConnIdle
  /\ calls = [a \in Acquirers |-> NoCall]
  /\ engineRun = [s \in Sessions |-> NoEngineRun]
  /\ extraction = NoExtraction
  /\ leafLocks = NoLeafLocks
  /\ \E row \in FetchedRows : conversion = [row |-> row, pc |-> "row", events |-> <<>>]

NextDecode == BuildEvent

SpecDecode == InitDecode /\ [][NextDecode]_vars

\* C34 as stated: when the fetched row holds its payload as the JSON text of
\* a document, the returned event's payload is that document.
DecodesJsonPayload ==
  (/\ conversion.pc = "returned"
   /\ conversion.events # <<>>
   /\ ~conversion.row.payload.d
   /\ json_loads(conversion.row.payload.v).d) =>
     conversion.events[1].payload = json_loads(conversion.row.payload.v).v

\* the rows whose handlers hold or wait for the run lock of session s
LockUsers(s) ==
  {lockOwner[s]} \cup {lockWaiters[s][i] : i \in DOMAIN lockWaiters[s]}

StopInWindow(e) ==
  /\ pc[e] \in {"resolve", "acking", "errsend"}
  /\ lockOwner[sid[e]] = e
  /\ stop_requested[sid[e]]

\* C36: while the loop runs, a handler with a stop request handled between
\* its reset of stop_requested and its engine start never starts an engine
\* run and holds the lock no longer once it has returned or raised; when it
\* comes to the stop test, its acknowledgement sent, it returns, and a handler
\* that has returned goes on to mark_done only. (A handler that has no prompt
\* or whose acknowledgement send raises leaves by exception before the test.)
StopBeforeRun ==
  [][\A e \in RowIds :
       /\ (StopInWindow(e) /\ pc'[e] # pc[e] /\ loopState' = "running") =>
            /\ pc'[e] \notin {"running", "unavail"}
            /\ pc'[e] \in {"ok", "raised"} => lockOwner'[sid[e]] # e
            /\ (pc[e] = "acking" /\ pc'[e] # "raised") => pc'[e] = "ok"
       /\ (pc[e] = "ok" /\ pc'[e] \notin {"ok", "cancelled"}) =>
            pc'[e] = "end" /\ markDoneCalls'[e] = markDoneCalls[e] + 1]_vars

\* a stop event of the session has been handled and marked done while the
\* handler, past its reset, waits for its acknowledgement send, and the handler
\* is about to return and free the lock instead of starting its run
StopBeforeRunWitness ==
  \E e, f \in RowIds :
    /\ StopInWindow(e) /\ pc[e] = "acking"
    /\ kind[f] \in _STOP_SESSION_EVENTS /\ sid[f] = sid[e]
    /\ pc[f] = "end" /\ status[f] = "done"
    /\ ENABLED (AckDone(e) /\ pc'[e] = "ok" /\ lockOwner'[sid[e]] = NoOne)
    /\ ~ENABLED (AckDone(e) /\ pc'[e] = "running")

liveRest == <<tableVars, pollVars, loopVars, sessionVars, rateVars, stateVars,
              promptVars, calls, unwrapVars, normalizeVars, connCalls, engineRun,
              extraction, conversion>>

\* positions at which a handler awaits an outbound call: every call goes
\* through LinearClient.graphql, which starts with `await self._rate.acquire()`
CallPositions == {"stop_sending", "resolve", "errsend", "acking", "unavail",
                  "running", "plan_final"}

\* _RateLimiter.acquire of the call awaited at e's position: `async with
\* self._lock` is entered, by one task at a time
RateEnter(e) ==
  /\ loopState = "running"
  /\ pc[e] \in CallPositions
  /\ leafLocks.passed[e] # pc[e]
  /\ leafLocks.rate = NoOne
  /\ leafLocks' = [leafLocks EXCEPT !.rate = e]
  /\ UNCHANGED liveRest

\* _RateLimiter.acquire that returns with the mutex still held
RateLeave_KeepsLock(e) ==
  /\ leafLocks.rate = e
  /\ leafLocks' = [leafLocks EXCEPT !.passed[e] = pc[e]]
  /\ UNCHANGED liveRest

\* _RateLimiter.acquire returns, after its sleep if the window was full: the
\* mutex is released and the request goes out
RateLeave(e) ==
  /\ leafLocks.rate = e
  /\ leafLocks' = [leafLocks EXCEPT !.rate = NoOne, !.passed[e] = pc[e]]
  /\ UNCHANGED liveRest

\* the call awaited at e's position has passed the limiter
Passed(e) == leafLocks.passed[e] = pc[e]

\* poll(): `async with self._lock` is entered by the loop
LoopEnter ==
  /\ loopState = "running"
  /\ leafLocks.poller = PollerFree
  /\ leafLocks' = [leafLocks EXCEPT !.poller = PollerLoop, !.seen = returned]
  /\ UNCHANGED liveRest

\* poll() under the lock: the claim statement returns rows
LivePoll ==
  /\ leafLocks.poller = PollerLoop
  /\ leafLocks.seen = returned
  /\ Poll

\* poll() leaves the lock's scope, with rows or with none (the loop then
\* sleeps poll_interval and polls again)
LoopLeave ==
  /\ leafLocks.poller = PollerLoop
  /\ leafLocks.seen # returned \/ ClaimSelect(NoOne) = {}
  /\ leafLocks' = [leafLocks EXCEPT !.poller = PollerFree,
                                    !.seen = [r \in RowIds |-> 0]]
  /\ UNCHANGED liveRest

\* mark_done / mark_failed: `async with self._lock` is entered by e's task
MarkEnter(e) ==
  /\ loopState = "running"
  /\ pc[e] \in {"ok", "raised"}
  /\ leafLocks.poller = PollerFree
  /\ leafLocks' = [leafLocks EXCEPT !.poller = PollerTask(e)]
  /\ UNCHANGED liveRest

\* the statement and the commit of mark_done succeed
LiveMarkDone(e) ==
  /\ leafLocks.poller = PollerTask(e)
  /\ MarkDone(e)
  /\ status'[e] = "done"

\* the statement and the commit of mark_failed succeed
LiveMarkFailed(e) ==
  /\ leafLocks.poller = PollerTask(e)
  /\ MarkFailed(e)
  /\ status'[e] = "failed"

\* mark_done / mark_failed leaves the lock's scope
MarkLeave(e) ==
  /\ leafLocks.poller = PollerTask(e)
  /\ pc[e] = "end"
  /\ leafLocks' = [leafLocks EXCEPT !.poller = PollerFree]
  /\ UNCHANGED liveRest

\* the steps of e's handle_and_mark task other than its wait for
\* GatewayPoller._lock
TaskStep(e) ==
  \/ HandleIgnored(e)
  \/ HandleMissingSession(e)
  \/ HandleStop(e)
  \/ AcquireRunLock(e)
  \/ ResetStop(e)
  \/ RateEnter(e)
  \/ RateLeave(e)
  \/ Passed(e) /\ StopSendDone(e)
  \/ Passed(e) /\ ResolvePrompt(e)
  \/ Passed(e) /\ ErrSendDone(e)
  \/ Passed(e) /\ AckDone(e)
  \/ Passed(e) /\ UnavailSendDone(e)
  \/ EngineRegister(e)
  \/ WatchStop(e)
  \/ Passed(e) /\ EngineFinish(e)
  \/ Passed(e) /\ PlanFinal(e)
  \/ LiveMarkDone(e)
  \/ LiveMarkFailed(e)
  \/ MarkLeave(e)

NextLive ==
  \/ LoopEnter
  \/ LivePoll
  \/ LoopLeave
  \/ \E e \in RowIds : HandleIgnored(e)
  \/ \E e \in RowIds : HandleMissingSession(e)
  \/ \E e \in RowIds : HandleStop(e)
  \/ \E e \in RowIds : AcquireRunLock(e)
  \/ \E e \in RowIds : ResetStop(e)
  \/ \E e \in RowIds : RateEnter(e)
  \/ \E e \in RowIds : RateLeave(e)
  \/ \E e \in RowIds : Passed(e) /\ StopSendDone(e)
  \/ \E e \in RowIds : Passed(e) /\ ResolvePrompt(e)
  \/ \E e \in RowIds : Passed(e) /\ ErrSendDone(e)
  \/ \E e \in RowIds : Passed(e) /\ AckDone(e)
  \/ \E e \in RowIds : Passed(e) /\ UnavailSendDone(e)
  \/ \E e \in RowIds : EngineRegister(e)
  \/ \E e \in RowIds : WatchStop(e)
  \/ \E e \in RowIds : Passed(e) /\ EngineFinish(e)
  \/ \E e \in RowIds : Passed(e) /\ PlanFinal(e)
  \/ \E e \in RowIds : MarkEnter(e)
  \/ \E e \in RowIds : LiveMarkDone(e)
  \/ \E e \in RowIds : LiveMarkFailed(e)
  \/ \E e \in RowIds : MarkLeave(e)

\* the event loop runs every task that can run and the loop itself; the locks
\* wake their waiters in the order of arrival, so a task that finds
\* GatewayPoller._lock free again and again gets it
FairScheduling ==
  /\ WF_vars(LoopEnter \/ LivePoll \/ LoopLeave)
  /\ \A e \in RowIds : WF_vars(TaskStep(e))
  /\ \A e \in RowIds : SF_vars(MarkEnter(e))

SpecLive == Init /\ [][NextLive]_vars /\ FairScheduling

\* C39: under fair scheduling, with storage calls succeeding and every call
\* and engine run ending, every row a poll returned is in time done or failed,
\* every handler waiting on a run lock comes to own it, every engine run in
\* progress is left (the watcher does not hold it back), and the limiter's
\* mutex and the poller's lock are free again and again.
EventsSettle ==
  /\ \A e \in RowIds : (returned[e] > 0) ~> (status[e] \in {"done", "failed"})
  /\ \A e \in RowIds : (pc[e] = "waiting") ~> (sid[e] # NoSession /\ lockOwner[sid[e]] = e)
  /\ \A e \in RowIds : (pc[e] = "running") ~> (pc[e] # "running")
  /\ []<>(leafLocks.rate = NoOne)
  /\ []<>(leafLocks.poller = PollerFree)

\* a handler waits on the run lock of a session whose run holds the limiter's
\* mutex, while the loop's poll holds the poller's lock
EventsSettleWitness ==
  \E e, f \in RowIds :
    /\ e # f /\ sid[e] = sid[f]
    /\ pc[f] = "waiting" /\ lockOwner[sid[e]] = e
    /\ leafLocks.rate = e
    /\ leafLocks.poller = PollerLoop

\* C40: a row is returned by at most one poll() call, and once a poll has
\* returned it its status is never pending again, whatever calls follow
\* (mark_done, mark_failed, calls that raise, later polls) and whether or not
\* a mark call for it was ever made.
ReturnedOnce ==
  \A r \in Rows :
    /\ returned[r] <= 1
    /\ returned[r] = 1 => status[r] \in {"processing", "done", "failed"}
    /\ status[r] = "pending" => returned[r] = 0

\* after a poll returned both rows, one was marked failed and the other left
\* in processing, and a later poll has returned an empty list
ReturnedOnceWitness ==
  \E r, q \in Rows :
    /\ returned[r] = 1 /\ status[r] = "processing"
    /\ returned[q] = 1 /\ status[q] = "failed"
    /\ lastBatch = <<>>
    /\ \E c \in Callers : connCalls[c].pc = "returned" /\ connCalls[c].raised

====
